---------------------------- MODULE Spec2Model ----------------------------
(***************************************************************************)
(* telegram-executor: the execution registry, the /execute submission      *)
(* path, the timeout timers and the update dispatcher, as a state machine. *)
(*                                                                         *)
(* Strings are sequences of one-character strings, so that TrimSpace,      *)
(* ToLower, rune counts and the callback-data round trip are computed the  *)
(* way the Go code computes them.                                          *)
(***************************************************************************)
EXTENDS Integers, Sequences, FiniteSets, TLC

(***************************************************************************)
(* Bounds of the model.                                                    *)
(***************************************************************************)
\* /execute requests served in one run
MaxSubmits == 2
\* custom-input prompt messages sent in one run
MaxPrompts == 2
\* the largest option count and the largest option limit of a spec block tried
MaxLimit == 7
\* the longest option text every character of which is drawn from the alphabet
MaxEscapeLen == 2
\* the longest correlation id whose buttons are built and clicked
MaxIdLen == 2
\* the updates waiting in the channel of the webhook source in the runs that
\* follow the dispatcher through whole updates
MaxQueued == 2

(***************************************************************************)
(* Program constants.                                                      *)
(***************************************************************************)
QuestionMinRunes == 10
QuestionMaxRunes == 1000
ContextMaxRunes == 2000
OptionMaxRunes == 300
DefaultOptionsMin == 2
DefaultOptionsMax == 5
StatusMethodNotAllowed == 405
StatusBadRequest == 400
StatusInternalServerError == 500
StatusAccepted == 202

StatusSuccess == "success"
StatusError == "error"
StatusPending == "pending"
timeoutResult == "execution timeout"

(***************************************************************************)
(* Strings.                                                                *)
(***************************************************************************)
Max(a, b) == IF a >= b THEN a ELSE b
Min(a, b) == IF a <= b THEN a ELSE b

\* unicode.IsSpace on the characters the model uses
IsSpace(c) == c \in {" ", "\t", "\n"}

RECURSIVE TrimLeft(_)
TrimLeft(s) ==
    IF s # <<>> /\ IsSpace(Head(s)) THEN TrimLeft(Tail(s)) ELSE s

RECURSIVE TrimRight(_)
TrimRight(s) ==
    IF s # <<>> /\ IsSpace(s[Len(s)])
    THEN TrimRight(SubSeq(s, 1, Len(s) - 1))
    ELSE s

\* strings.TrimSpace
TrimSpace(s) == TrimRight(TrimLeft(s))

\* unicode.ToLower on the upper-case letters the model uses
LowerRune(c) ==
    CASE c = "E" -> "e" [] c = "N" -> "n" [] c = "R" -> "r" [] c = "U" -> "u"
      [] c = "H" -> "h" [] c = "T" -> "t" [] c = "M" -> "m" [] c = "L" -> "l"
      [] OTHER -> c

\* strings.ToLower
ToLower(s) == [i \in 1..Len(s) |-> LowerRune(s[i])]

\* len([]rune(s))
RuneCount(s) == Len(s)

\* a string of n copies of c
Repeat(c, n) == [i \in 1..n |-> c]

(***************************************************************************)
(* JSON values of the /execute body: arguments and spec are map[string]any.*)
(* A number is kept in tenths, so that int(float64) truncates something.   *)
(***************************************************************************)
JAbsent == [t |-> "absent", s |-> <<>>, n |-> 0, b |-> FALSE, a |-> <<>>]
JNull == [t |-> "null", s |-> <<>>, n |-> 0, b |-> FALSE, a |-> <<>>]
JStr(s) == [t |-> "string", s |-> s, n |-> 0, b |-> FALSE, a |-> <<>>]
JNum(tenths) == [t |-> "number", s |-> <<>>, n |-> tenths, b |-> FALSE, a |-> <<>>]
JInt(i) == JNum(10 * i)
JBool(b) == [t |-> "bool", s |-> <<>>, n |-> 0, b |-> b, a |-> <<>>]
\* an array of items, each a string (t = "string") or a number
JArr(items) == [t |-> "array", s |-> <<>>, n |-> 0, b |-> FALSE, a |-> items]
JItemStr(s) == [t |-> "string", s |-> s]
JItemNum == [t |-> "number", s |-> <<>>]

\* int(value) of a float64: truncation toward zero
TruncTenths(n) == IF n >= 0 THEN n \div 10 ELSE -((-n) \div 10)

(***************************************************************************)
(* /execute validation: ExecuteHandler.ServeHTTP and its helpers.          *)
(***************************************************************************)
NoErr == [msg |-> "", args |-> <<>>]
Err(m) == [msg |-> m, args |-> <<>>]
Errf(m, args) == [msg |-> m, args |-> args]

\* extractString(data, key): the trimmed value, ok only when non-blank
extractString(v) ==
    IF v.t = "string" /\ TrimSpace(v.s) # <<>>
    THEN [value |-> TrimSpace(v.s), ok |-> TRUE]
    ELSE [value |-> <<>>, ok |-> FALSE]

\* extractBool(data, key)
extractBool(v) ==
    IF v.t = "bool" THEN [value |-> v.b, ok |-> TRUE]
    ELSE [value |-> FALSE, ok |-> FALSE]

\* extractInt(data, key): JSON numbers arrive as float64
extractInt(v) ==
    IF v.t = "number" THEN [value |-> TruncTenths(v.n), ok |-> TRUE]
    ELSE [value |-> 0, ok |-> FALSE]

optionLimitsFromSpec_BadMax(spec) ==
    LET mn == extractInt(spec.options_min)
        mx == extractInt(spec.options_max)
        minOptions == IF mn.ok /\ mn.value > 0 THEN mn.value ELSE DefaultOptionsMin
        maxOptions == IF mx.ok THEN mx.value ELSE DefaultOptionsMax
    IN  [min |-> minOptions, max |-> maxOptions]

\* optionLimitsFromSpec(spec): (minOptions, maxOptions)
optionLimitsFromSpec(spec) ==
    LET mn == extractInt(spec.options_min)
        mx == extractInt(spec.options_max)
        minOptions == IF mn.ok /\ mn.value > 0 THEN mn.value ELSE DefaultOptionsMin
        maxOptions == IF mx.ok /\ mx.value >= minOptions THEN mx.value
                      ELSE DefaultOptionsMax
    IN  [min |-> minOptions, max |-> maxOptions]

\* the first item of items that extractOptions rejects, 0 when none
RECURSIVE FirstBadOption(_, _)
FirstBadOption(items, idx) ==
    IF idx > Len(items) THEN 0
    ELSE IF \/ items[idx].t # "string"
            \/ TrimSpace(items[idx].s) = <<>>
            \/ RuneCount(TrimSpace(items[idx].s)) > OptionMaxRunes
         THEN idx
         ELSE FirstBadOption(items, idx + 1)

\* extractOptions(arguments, minOptions, maxOptions)
extractOptions(arguments, minOptions, maxOptions) ==
    LET raw == arguments.options
        items == raw.a
        bad == FirstBadOption(items, 1)
    IN  IF raw.t \in {"absent", "null"}
        THEN [options |-> <<>>, err |-> Err("options is required")]
        ELSE IF raw.t # "array"
        THEN [options |-> <<>>, err |-> Err("options must be array")]
        ELSE IF Len(items) < minOptions \/ Len(items) > maxOptions
        THEN [options |-> <<>>,
              err |-> Errf("options count must be %d-%d", <<minOptions, maxOptions>>)]
        ELSE IF bad # 0
        THEN [options |-> <<>>,
              err |-> IF items[bad].t # "string"
                      THEN Errf("options[%d] must be string", <<bad - 1>>)
                      ELSE IF TrimSpace(items[bad].s) = <<>>
                      THEN Errf("options[%d] is empty", <<bad - 1>>)
                      ELSE Errf("options[%d] must be <= 300 characters", <<bad - 1>>)]
        ELSE [options |-> [i \in 1..Len(items) |-> TrimSpace(items[i].s)],
              err |-> NoErr]

\* parseFeedbackArgs(arguments, spec)
parseFeedbackArgs(arguments, spec) ==
    LET q == extractString(arguments.question)
        c == extractString(arguments.context)
        lim == optionLimitsFromSpec(spec)
        opts == extractOptions(arguments, lim.min, lim.max)
        fromSpec == extractBool(spec.allow_custom_option)
        fromArgs == extractBool(arguments.allow_custom)
        allowCustom == IF fromArgs.ok THEN fromArgs.value
                       ELSE IF fromSpec.ok THEN fromSpec.value
                       ELSE TRUE
        fail(e) == [question |-> <<>>, context |-> <<>>, options |-> <<>>,
                    allowCustom |-> FALSE, err |-> e]
    IN  IF ~q.ok THEN fail(Err("question is required"))
        ELSE IF RuneCount(q.value) < QuestionMinRunes
                \/ RuneCount(q.value) > QuestionMaxRunes
        THEN fail(Err("question must be 10-1000 characters"))
        ELSE IF RuneCount(c.value) > ContextMaxRunes
        THEN fail(Err("context must be <= 2000 characters"))
        ELSE IF opts.err # NoErr THEN fail(opts.err)
        ELSE [question |-> q.value, context |-> c.value, options |-> opts.options,
              allowCustom |-> allowCustom, err |-> NoErr]

LangEn == <<"e", "n">>
LangRu == <<"r", "u">>

\* normalizeLang(value, fallback)
normalizeLang(value, fallback) ==
    LET v == TrimSpace(ToLower(value))
        f == TrimSpace(ToLower(fallback))
    IN  IF v \in {LangRu, LangEn} THEN v
        ELSE IF f \in {LangRu, LangEn} THEN f
        ELSE LangEn

MarkupMarkdown == <<"m", "a", "r", "k", "d", "o", "w", "n">>
MarkupHTML == <<"h", "t", "m", "l">>

\* parseMode(markup)
parseMode(markup) ==
    IF ToLower(TrimSpace(markup)) = MarkupHTML THEN "HTML" ELSE "MarkdownV2"


(***************************************************************************)
(* The /execute bodies the model submits.  RawRequests is a tuple, and an  *)
(* in-flight request is known by its index in it.                          *)
(***************************************************************************)
IdA == <<"a">>
IdB == <<"b">>
ToolT == <<"t">>
ToolU == <<"u">>
Question1 == <<"Q", "u", "e", "s", "t", "i", "o", "n", "?", "?">>
Question2 == <<" ", "W", "h", "i", "c", "h", " ", "o", "n", "e", "?", " ">>
CallbackURL == <<"h", "t", "t", "p", ":", "/", "/", "c", "b">>

NoSpec == [options_min |-> JAbsent, options_max |-> JAbsent,
           allow_custom_option |-> JAbsent]
Options(strs) == JArr([i \in 1..Len(strs) |-> JItemStr(strs[i])])
BaseArgs == [question |-> JStr(Question1), context |-> JAbsent,
             options |-> Options(<< <<"A">>, <<"B">> >>), allow_custom |-> JAbsent]
BaseRaw == [method |-> "POST", json |-> TRUE, correlation_id |-> IdA,
            tool_name |-> ToolT, arguments |-> BaseArgs, spec |-> NoSpec,
            lang |-> <<>>, markup |-> <<>>,
            callback |-> [present |-> TRUE, url |-> CallbackURL],
            timeout_sec |-> 0]

RawRequests == <<
    \* 1..3: accepted by the validation
    BaseRaw,
    [BaseRaw EXCEPT !.correlation_id = IdB, !.tool_name = ToolU,
                    !.arguments.question = JStr(Question2),
                    !.arguments.options = Options(<< <<"A">>, <<" ", "B">>, <<"C">> >>),
                    !.arguments.context = JStr(<<"c">>),
                    !.spec.allow_custom_option = JBool(TRUE),
                    !.lang = <<"R", "U">>, !.markup = <<"H", "T", "M", "L", " ">>,
                    !.timeout_sec = 1],
    [BaseRaw EXCEPT !.arguments.options = Options(<< <<"C">> >>),
                    !.arguments.allow_custom = JBool(FALSE),
                    !.spec.allow_custom_option = JBool(TRUE),
                    !.spec.options_min = JNum(19)],
    \* 4..: rejected by the validation
    [BaseRaw EXCEPT !.correlation_id = <<" ">>],
    [BaseRaw EXCEPT !.arguments.options = Options(<< <<"A">> >>)],
    [BaseRaw EXCEPT !.method = "GET"],
    [BaseRaw EXCEPT !.json = FALSE],
    [BaseRaw EXCEPT !.correlation_id = <<>>],
    [BaseRaw EXCEPT !.tool_name = <<" ", "\t">>],
    [BaseRaw EXCEPT !.markup = <<"x", "m", "l">>],
    [BaseRaw EXCEPT !.callback = [present |-> FALSE, url |-> <<>>]],
    [BaseRaw EXCEPT !.callback = [present |-> TRUE, url |-> <<" ">>]],
    [BaseRaw EXCEPT !.arguments.question = JAbsent],
    [BaseRaw EXCEPT !.arguments.question = JNum(10)],
    [BaseRaw EXCEPT !.arguments.question = JStr(Repeat("q", QuestionMinRunes - 1))],
    [BaseRaw EXCEPT !.arguments.question = JStr(Repeat("q", QuestionMaxRunes + 1))],
    [BaseRaw EXCEPT !.arguments.context = JStr(Repeat("c", ContextMaxRunes + 1))],
    [BaseRaw EXCEPT !.arguments.options = JAbsent],
    [BaseRaw EXCEPT !.arguments.options = JNull],
    [BaseRaw EXCEPT !.arguments.options = JStr(<<"A">>)],
    [BaseRaw EXCEPT !.arguments.options =
        Options([i \in 1..(DefaultOptionsMax + 1) |-> <<"A">>])],
    [BaseRaw EXCEPT !.arguments.options = JArr(<<JItemStr(<<"A">>), JItemNum>>)],
    [BaseRaw EXCEPT !.arguments.options = Options(<< <<"A">>, <<" ">> >>)],
    [BaseRaw EXCEPT !.arguments.options =
        Options(<< <<"A">>, Repeat("o", OptionMaxRunes + 1) >>)],
    [BaseRaw EXCEPT !.spec.options_min = JInt(3)],
    [BaseRaw EXCEPT !.spec.options_max = JInt(1),
                    !.arguments.options = Options(<< <<"A">> >>)]
>>

\* every request of RawRequests
AllRaw == 1..Len(RawRequests)

(***************************************************************************)
(* ExecuteHandler.ServeHTTP up to the call of SubmitExecution: either the  *)
(* response that rejects the request, or the executions.Request built.     *)
(***************************************************************************)
NoRequest == [CorrelationID |-> <<>>, Tool |-> <<>>, Question |-> <<>>,
              Context |-> <<>>, Options |-> <<>>, AllowCustom |-> FALSE,
              Lang |-> <<>>, Markup |-> <<>>, Callback |-> <<>>]
NoResponse == [http |-> 0, status |-> "", result |-> NoErr, correlation_id |-> <<>>]

\* ExecuteHandler.respond
respond(statusCode, status, result, correlationID) ==
    [http |-> statusCode, status |-> status, result |-> result,
     correlation_id |-> correlationID]

Rejected(resp) == [rejected |-> TRUE, response |-> resp, req |-> NoRequest]

markupAccepted_AnyMarkup(markup) == TRUE

\* the switch on strings.ToLower(strings.TrimSpace(req.Markup))
markupAccepted(markup) == ToLower(TrimSpace(markup)) \in {MarkupMarkdown, MarkupHTML}

ServeHTTPValidate(raw, cfgLang) ==
    LET markup == IF TrimSpace(raw.markup) = <<>> THEN MarkupMarkdown ELSE raw.markup
        parsed == parseFeedbackArgs(raw.arguments, raw.spec)
    IN  IF raw.method # "POST"
        THEN Rejected(respond(StatusMethodNotAllowed, "", NoErr, <<>>))
        ELSE IF ~raw.json
        THEN Rejected(respond(StatusBadRequest, StatusError,
                              Err("invalid json payload"), <<>>))
        ELSE IF TrimSpace(raw.correlation_id) = <<>>
        THEN Rejected(respond(StatusBadRequest, StatusError,
                              Err("correlation_id is required"), <<>>))
        ELSE IF TrimSpace(raw.tool_name) = <<>>
        THEN Rejected(respond(StatusBadRequest, StatusError,
                              Err("tool.name is required"), <<>>))
        ELSE IF ~markupAccepted(markup)
        THEN Rejected(respond(StatusBadRequest, StatusError,
                              Err("markup must be markdown or html"), <<>>))
        ELSE IF ~raw.callback.present \/ TrimSpace(raw.callback.url) = <<>>
        THEN Rejected(respond(StatusBadRequest, StatusError,
                              Err("callback.url is required for async execution"), <<>>))
        ELSE IF parsed.err # NoErr
        THEN Rejected(respond(StatusBadRequest, StatusError, parsed.err, <<>>))
        ELSE [rejected |-> FALSE, response |-> NoResponse,
              req |-> [CorrelationID |-> raw.correlation_id,
                       Tool |-> raw.tool_name,
                       Question |-> parsed.question,
                       Context |-> parsed.context,
                       Options |-> parsed.options,
                       AllowCustom |-> parsed.allowCustom,
                       Lang |-> normalizeLang(raw.lang, cfgLang),
                       Markup |-> markup,
                       Callback |-> raw.callback.url]]

(***************************************************************************)
(* executions.Registry.  r is the Registry struct (the executions map from *)
(* correlation id to *Execution, promptMessageID, promptCorrelation); h is *)
(* the heap of Execution objects, a pointer being an index in it (0: nil). *)
(* An Execution removed from the map stays in the heap: its resolver still *)
(* holds the pointer.  Every operator is one critical section of r.mu.     *)
(***************************************************************************)
NewRegistry == [executions |-> <<>>, promptMessageID |-> 0, promptCorrelation |-> <<>>]

Has(r, correlationID) == correlationID \in DOMAIN r.executions

Add_Overwrite(r, h, req) ==
    [r |-> [r EXCEPT !.executions =
                [k \in DOMAIN r.executions \cup {req.CorrelationID} |->
                    IF k = req.CorrelationID THEN Len(h) + 1 ELSE r.executions[k]]],
     h |-> Append(h, [Request |-> req, MessageID |-> 0, MessageText |-> <<>>,
                      AwaitingText |-> FALSE]),
     exec |-> Len(h) + 1, err |-> FALSE]

\* Registry.Add
Add(r, h, req) ==
    IF Has(r, req.CorrelationID)
    THEN [r |-> r, h |-> h, exec |-> 0, err |-> TRUE]
    ELSE [r |-> [r EXCEPT !.executions =
                    [k \in DOMAIN r.executions \cup {req.CorrelationID} |->
                        IF k = req.CorrelationID THEN Len(h) + 1
                        ELSE r.executions[k]]],
          h |-> Append(h, [Request |-> req, MessageID |-> 0, MessageText |-> <<>>,
                            AwaitingText |-> FALSE]),
          exec |-> Len(h) + 1, err |-> FALSE]

\* Registry.Get
Get(r, correlationID) ==
    IF Has(r, correlationID) THEN r.executions[correlationID] ELSE 0

\* Registry.SetMessage
SetMessage(r, h, correlationID, messageID, messageText) ==
    IF Has(r, correlationID)
    THEN [h EXCEPT ![r.executions[correlationID]].MessageID = messageID,
                   ![r.executions[correlationID]].MessageText = messageText]
    ELSE h

StartCustomInput_NoRetry(r, h, correlationID) ==
    IF ~Has(r, correlationID) \/ r.promptCorrelation = correlationID
    THEN [r |-> r, h |-> h, previousPrompt |-> 0, ok |-> FALSE]
    ELSE [r |-> [r EXCEPT !.promptCorrelation = correlationID,
                          !.promptMessageID = 0],
          h |-> [h EXCEPT ![r.executions[correlationID]].AwaitingText = TRUE],
          previousPrompt |-> IF r.promptCorrelation # <<>> THEN r.promptMessageID ELSE 0,
          ok |-> TRUE]

StartCustomInput_KeepPrevious(r, h, correlationID) ==
    IF ~Has(r, correlationID)
    THEN [r |-> r, h |-> h, previousPrompt |-> 0, ok |-> FALSE]
    ELSE [r |-> [r EXCEPT !.promptCorrelation = correlationID,
                          !.promptMessageID = 0],
          h |-> [h EXCEPT ![r.executions[correlationID]].AwaitingText = TRUE],
          previousPrompt |->
              IF r.promptCorrelation # <<>> /\ r.promptCorrelation # correlationID
              THEN r.promptMessageID ELSE 0,
          ok |-> TRUE]

\* Registry.StartCustomInput
StartCustomInput(r, h, correlationID) ==
    IF ~Has(r, correlationID)
    THEN [r |-> r, h |-> h, previousPrompt |-> 0, ok |-> FALSE]
    ELSE LET swap == r.promptCorrelation # <<>> /\ r.promptCorrelation # correlationID
             h1 == IF swap /\ Has(r, r.promptCorrelation)
                   THEN [h EXCEPT ![r.executions[r.promptCorrelation]].AwaitingText = FALSE]
                   ELSE h
         IN  [r |-> [r EXCEPT !.promptCorrelation = correlationID,
                              !.promptMessageID = 0],
              h |-> [h1 EXCEPT ![r.executions[correlationID]].AwaitingText = TRUE],
              previousPrompt |-> IF swap THEN r.promptMessageID ELSE 0,
              ok |-> TRUE]

SetPromptMessage_Never(r, correlationID, messageID) == r

\* Registry.SetPromptMessage
SetPromptMessage(r, correlationID, messageID) ==
    IF r.promptCorrelation = correlationID
    THEN [r EXCEPT !.promptMessageID = messageID]
    ELSE r

ClearPrompt_AnyOwner(r, h, correlationID) ==
    [r |-> [r EXCEPT !.promptMessageID = 0, !.promptCorrelation = <<>>],
     h |-> IF Has(r, correlationID)
           THEN [h EXCEPT ![r.executions[correlationID]].AwaitingText = FALSE]
           ELSE h,
     removed |-> r.promptMessageID]

\* Registry.ClearPrompt
ClearPrompt(r, h, correlationID) ==
    IF r.promptCorrelation # correlationID
    THEN [r |-> r, h |-> h, removed |-> 0]
    ELSE [r |-> [r EXCEPT !.promptMessageID = 0, !.promptCorrelation = <<>>],
          h |-> IF Has(r, correlationID)
                THEN [h EXCEPT ![r.executions[correlationID]].AwaitingText = FALSE]
                ELSE h,
          removed |-> r.promptMessageID]

\* Registry.CurrentPrompt
CurrentPrompt(r, h) ==
    IF r.promptCorrelation = <<>> THEN [exec |-> 0, promptID |-> 0]
    ELSE IF ~Has(r, r.promptCorrelation) THEN [exec |-> 0, promptID |-> 0]
    ELSE IF ~h[r.executions[r.promptCorrelation]].AwaitingText
    THEN [exec |-> 0, promptID |-> 0]
    ELSE [exec |-> r.executions[r.promptCorrelation], promptID |-> r.promptMessageID]

Resolve_NoDelete(r, correlationID) ==
    IF ~Has(r, correlationID)
    THEN [r |-> r, exec |-> 0, promptID |-> 0, ok |-> FALSE]
    ELSE [r |-> r, exec |-> r.executions[correlationID], promptID |-> 0, ok |-> TRUE]

Resolve_KeepPrompt(r, correlationID) ==
    IF ~Has(r, correlationID)
    THEN [r |-> r, exec |-> 0, promptID |-> 0, ok |-> FALSE]
    ELSE [r |-> [r EXCEPT !.executions =
                    [k \in DOMAIN r.executions \ {correlationID} |-> r.executions[k]]],
          exec |-> r.executions[correlationID], promptID |-> 0, ok |-> TRUE]

Resolve_ClearsAnyPrompt(r, correlationID) ==
    IF ~Has(r, correlationID)
    THEN [r |-> r, exec |-> 0, promptID |-> 0, ok |-> FALSE]
    ELSE [r |-> [executions |->
                    [k \in DOMAIN r.executions \ {correlationID} |-> r.executions[k]],
                 promptMessageID |-> 0,
                 promptCorrelation |-> <<>>],
          exec |-> r.executions[correlationID],
          promptID |-> r.promptMessageID,
          ok |-> TRUE]

\* Registry.Resolve
Resolve(r, correlationID) ==
    IF ~Has(r, correlationID)
    THEN [r |-> r, exec |-> 0, promptID |-> 0, ok |-> FALSE]
    ELSE LET owner == r.promptCorrelation = correlationID
         IN  [r |-> [executions |->
                        [k \in DOMAIN r.executions \ {correlationID} |-> r.executions[k]],
                     promptMessageID |-> IF owner THEN 0 ELSE r.promptMessageID,
                     promptCorrelation |-> IF owner THEN <<>> ELSE r.promptCorrelation],
              exec |-> r.executions[correlationID],
              promptID |-> IF owner THEN r.promptMessageID ELSE 0,
              ok |-> TRUE]

(***************************************************************************)
(* Localized texts (the i18n catalogs are data): a text is known by its    *)
(* language and its key.  Handler.messageFor / shared.MessagesFor pick the *)
(* catalog: the given language, else the default one, else "en".           *)
(***************************************************************************)
messageFor(lang, defaultLang) ==
    LET l == ToLower(TrimSpace(lang))
        wanted == IF l = <<>> THEN defaultLang ELSE l
    IN  IF wanted \in {LangEn, LangRu} THEN wanted ELSE LangEn

Text(msg, key) == [key |-> key, lang |-> msg, arg |-> <<>>]
\* fmt.Sprintf("✅ %s: %s", msg.SelectedNote, answer)
SelectedNoteText(msg, answer) == [key |-> "SelectedNote", lang |-> msg, arg |-> answer]
EmptyText == [key |-> "", lang |-> <<>>, arg |-> <<>>]

(***************************************************************************)
(* The process configuration (config.Config): fixed during a run.          *)
(***************************************************************************)
Configs == {
    [Lang |-> LangEn, ChatID |-> 7, transcriber |-> TRUE, TimeoutMessage |-> <<>>],
    [Lang |-> LangRu, ChatID |-> 7, transcriber |-> FALSE,
     TimeoutMessage |-> <<"l", "a", "t", "e">>] }

(***************************************************************************)
(* Results and the callback payload.                                       *)
(***************************************************************************)
\* a Result.Output that is a string
OutputString(str) ==
    [kind |-> "string", str |-> str, question |-> <<>>, selected_option |-> <<>>,
     selected_index |-> <<>>, custom |-> FALSE, input_mode |-> ""]
\* a Result.Output that is the map of a selection; selectedIndex is <<i>> or <<>> (nil)
OutputSelection(question, selected, selectedIndex, custom, inputMode) ==
    [kind |-> "map", str |-> "", question |-> question, selected_option |-> selected,
     selected_index |-> selectedIndex, custom |-> custom, input_mode |-> inputMode]
NoOutput == [kind |-> "nil", str |-> "", question |-> <<>>, selected_option |-> <<>>,
             selected_index |-> <<>>, custom |-> FALSE, input_mode |-> ""]
NoResult == [Status |-> "", Output |-> NoOutput, Note |-> EmptyText]

\* the Result of a timeout (Service.scheduleTimeout)
TimeoutResult == [Status |-> StatusError, Output |-> OutputString(timeoutResult),
                  Note |-> EmptyText]

\* Handler.noteForResult
noteForResult(msg, result, timeoutMessage) ==
    CASE result.Status = StatusSuccess ->
            IF result.Note # EmptyText THEN result.Note
            ELSE IF result.Output.kind # "nil"
            THEN [key |-> "output", lang |-> msg, arg |-> result.Output.selected_option]
            ELSE Text(msg, "SelectedNote")
      [] result.Status = StatusError ->
            IF result.Output.kind = "string" /\ result.Output.str = timeoutResult
            THEN IF TrimSpace(timeoutMessage) # <<>>
                 THEN [key |-> "timeoutMessage", lang |-> <<>>, arg |-> timeoutMessage]
                 ELSE Text(msg, "TimeoutNote")
            ELSE IF result.Output.kind = "string" /\ result.Output.str # ""
            THEN [key |-> result.Output.str, lang |-> <<>>, arg |-> <<>>]
            ELSE IF result.Note # EmptyText THEN result.Note
            ELSE Text(msg, "ErrorNote")
      [] OTHER -> EmptyText

(***************************************************************************)
(* The chat, as the bot client sees it: the messages this process sent, by *)
(* message id (the index), each shown, edited or deleted.                  *)
(***************************************************************************)
Shown(c, messageID) ==
    messageID \in 1..Len(c) /\ c[messageID].state # "deleted"

\* bot.SendMessage, accepted: the chat after it; the new message id is Len(c) + 1
ChatSend(c, kind, replyTo) ==
    Append(c, [kind |-> kind, state |-> "shown", replyTo |-> replyTo,
               note |-> EmptyText])

\* Handler.DeleteMessage: nothing for messageID <= 0; delivered says whether the
\* chat call got through
ChatDelete(c, messageID, delivered) ==
    IF messageID > 0 /\ delivered /\ Shown(c, messageID)
    THEN [c EXCEPT ![messageID].state = "deleted"]
    ELSE c

\* bot.EditMessageText: whether it succeeds
EditSucceeds(c, messageID, delivered) == delivered /\ Shown(c, messageID)

\* the chat after the edit of FinalizeExecution
ChatEdit(c, messageID, note, delivered) ==
    IF EditSucceeds(c, messageID, delivered)
    THEN [c EXCEPT ![messageID].state = "edited", ![messageID].note = note]
    ELSE c

\* Service.renderMessage: the text is known by its parse mode and its request
renderMessage(req) == <<parseMode(req.Markup), req.CorrelationID, req.Question>>

sendWebhook_Twice(w, h, exec, result) ==
    LET payload == [correlation_id |-> h[exec].Request.CorrelationID,
                    status |-> result.Status, result |-> result.Output,
                    tool |-> h[exec].Request.Tool]
    IN  [w EXCEPT ![exec] = Append(Append(@, payload), payload)]

sendWebhook_Never(w, h, exec, result) == w

\* Handler.sendWebhook: w[exec] lists the callback POSTs issued for Execution exec
sendWebhook(w, h, exec, result) ==
    IF exec = 0 THEN w
    ELSE IF TrimSpace(h[exec].Request.Callback) = <<>> THEN w
    ELSE [w EXCEPT ![exec] =
            Append(@, [correlation_id |-> h[exec].Request.CorrelationID,
                       status |-> result.Status,
                       result |-> result.Output,
                       tool |-> h[exec].Request.Tool])]

(***************************************************************************)
(* Callback data: handlers.CallbackData, parseCallback, parseOptionPayload.*)
(***************************************************************************)
ActionOption == <<"o", "p", "t", "i", "o", "n">>
ActionCustom == <<"c", "u", "s", "t", "o", "m">>
ActionCancelCustom == <<"c", "u", "s", "t", "o", "m", "_", "c", "a", "n", "c", "e", "l">>
ActionDelete == <<"d", "e", "l", "e", "t", "e">>

\* strings.Index for a one-character separator: 0 when s does not hold c
RECURSIVE IndexFrom(_, _, _)
IndexFrom(s, c, i) ==
    IF i > Len(s) THEN 0 ELSE IF s[i] = c THEN i ELSE IndexFrom(s, c, i + 1)
IndexOf(s, c) == IndexFrom(s, c, 1)

\* strings.SplitN(s, sep, 2)
SplitN2(s, sep) ==
    LET i == IndexOf(s, sep)
    IN  IF i = 0 THEN <<s>>
        ELSE <<SubSeq(s, 1, i - 1), SubSeq(s, i + 1, Len(s))>>

DigitChars == <<"0", "1", "2", "3", "4", "5", "6", "7", "8", "9">>
IsDigit(c) == \E d \in 1..10 : DigitChars[d] = c
DigitVal(c) == (CHOOSE d \in 1..10 : DigitChars[d] = c) - 1

RECURSIVE DigitsVal(_)
DigitsVal(s) ==
    IF s = <<>> THEN 0
    ELSE 10 * DigitsVal(SubSeq(s, 1, Len(s) - 1)) + DigitVal(s[Len(s)])

\* strconv.Atoi
Atoi(s) ==
    LET signed == s # <<>> /\ s[1] \in {"+", "-"}
        digits == IF signed THEN Tail(s) ELSE s
    IN  IF digits = <<>> \/ \E k \in 1..Len(digits) : ~IsDigit(digits[k])
        THEN [value |-> 0, err |-> TRUE]
        ELSE [value |-> IF signed /\ s[1] = "-" THEN -DigitsVal(digits)
                        ELSE DigitsVal(digits),
              err |-> FALSE]

RECURSIVE NatToString(_)
NatToString(n) ==
    IF n < 10 THEN <<DigitChars[n + 1]>>
    ELSE NatToString(n \div 10) \o <<DigitChars[(n % 10) + 1]>>

\* strconv.Itoa, fmt.Sprintf("%d", n)
Itoa(n) == IF n < 0 THEN <<"-">> \o NatToString(-n) ELSE NatToString(n)

\* handlers.CallbackData
CallbackData(action, payload) ==
    IF payload = <<>> THEN action ELSE action \o <<":">> \o payload

\* the payload of an option button (Service.optionsKeyboard)
OptionPayload(correlationID, idx) == correlationID \o <<"|">> \o Itoa(idx)

\* handlers.parseCallback
parseCallback(data) ==
    LET parts == SplitN2(data, ":")
    IN  IF Len(parts) = 1 THEN [action |-> parts[1], payload |-> <<>>]
        ELSE [action |-> parts[1], payload |-> parts[2]]

\* handlers.parseOptionPayload
parseOptionPayload(payload) ==
    LET parts == SplitN2(payload, "|")
    IN  IF Len(parts) # 2 THEN [correlationID |-> <<>>, index |-> 0, err |-> TRUE]
        ELSE IF Atoi(parts[2]).err
        THEN [correlationID |-> <<>>, index |-> 0, err |-> TRUE]
        ELSE [correlationID |-> parts[1], index |-> Atoi(parts[2]).value, err |-> FALSE]

(***************************************************************************)
(* The chat updates the dispatcher is handed.  Updates is a tuple, and the *)
(* update being handled is known by its index in it.                       *)
(***************************************************************************)
\* a callback query; hasMessage: whether query.Message is set
Query(chatID, data) ==
    [kind |-> "callback", chatID |-> chatID, hasMessage |-> TRUE, data |-> data,
     text |-> <<>>, voice |-> FALSE]
\* a message
Message(chatID, text, voice) ==
    [kind |-> "message", chatID |-> chatID, hasMessage |-> TRUE, data |-> <<>>,
     text |-> text, voice |-> voice]

Updates == <<
    Query(7, CallbackData(ActionOption, OptionPayload(IdA, 0))),
    Query(7, CallbackData(ActionOption, OptionPayload(IdA, 1))),
    Query(7, CallbackData(ActionOption, OptionPayload(IdB, 2))),
    Query(7, CallbackData(ActionOption, OptionPayload(IdA, 2))),
    Query(7, CallbackData(ActionOption, OptionPayload(IdB, -1))),
    Query(7, CallbackData(ActionOption, IdA)),
    Query(7, CallbackData(ActionOption, IdA \o <<"|", "x">>)),
    Query(7, CallbackData(ActionCustom, IdA)),
    Query(7, CallbackData(ActionCustom, IdB)),
    Query(7, CallbackData(ActionCancelCustom, IdA)),
    Query(7, CallbackData(ActionCancelCustom, IdB)),
    Query(7, CallbackData(ActionDelete, Itoa(1))),
    Query(7, CallbackData(ActionDelete, Itoa(2))),
    Query(7, CallbackData(ActionDelete, Itoa(0))),
    Query(7, CallbackData(ActionDelete, <<"x">>)),
    Query(7, <<"n", "o", "o", "p">>),
    Query(7, <<>>),
    Query(8, CallbackData(ActionOption, OptionPayload(IdA, 0))),
    Query(8, CallbackData(ActionCustom, IdA)),
    Query(8, CallbackData(ActionCancelCustom, IdA)),
    Query(8, CallbackData(ActionDelete, Itoa(1))),
    [Query(7, CallbackData(ActionOption, OptionPayload(IdA, 0)))
        EXCEPT !.hasMessage = FALSE],
    Message(7, <<"y">>, FALSE),
    Message(7, <<" ", "n", "o", " ">>, FALSE),
    Message(7, <<" ">>, FALSE),
    Message(7, <<>>, TRUE),
    Message(7, <<>>, FALSE),
    Message(8, <<"y">>, FALSE),
    Message(8, <<>>, TRUE),
    [Message(7, <<>>, FALSE) EXCEPT !.kind = "other"]
>>

AllUpdates == 1..Len(Updates)

\* what transcribeVoice can return once the transcriber is configured
VoiceOutcomes == {
    [err |-> TRUE, text |-> <<>>],
    [err |-> FALSE, text |-> <<"v", " ">>],
    [err |-> FALSE, text |-> <<" ">>] }

(***************************************************************************)
(* The runs explored: which raw requests and which updates arrive, and     *)
(* whether deletions and edits asked of the chat can fail.                 *)
(***************************************************************************)
Scenarios == {
    \* one correlation id submitted again, with fewer options, and a click
    [raws |-> {1, 3}, updates |-> {2}, deliveries |-> BOOLEAN,
     submits |-> MaxSubmits, prompts |-> MaxPrompts],
    \* every raw request, no update
    [raws |-> AllRaw, updates |-> {}, deliveries |-> {TRUE},
     submits |-> MaxSubmits, prompts |-> MaxPrompts],
    \* two executions and a custom click on each
    [raws |-> {1, 2}, updates |-> {8, 9}, deliveries |-> {TRUE},
     submits |-> MaxSubmits, prompts |-> MaxPrompts - 1],
    \* one execution and updates of every kind, from the chat and from another one
    [raws |-> {2}, updates |-> {3, 5, 9, 11, 12, 16, 18, 19, 20, 21, 22, 24, 26, 28, 29, 30},
     deliveries |-> BOOLEAN, submits |-> MaxSubmits - 1, prompts |-> MaxPrompts] }

(***************************************************************************)
(* State.                                                                  *)
(***************************************************************************)
VARIABLES
    inputs,     \* what arrives in this run: requests, updates, chat call outcomes
    cfg,        \* config.Config
    registry,   \* executions.Registry
    heap,       \* the Execution objects the registry's pointers refer to
    chat,       \* the messages sent to the chat
    webhooks,   \* per Execution object, the callback POSTs issued
    subs,       \* the /execute requests being served: one record per ServeHTTP call
    timers,     \* the goroutines of Service.scheduleTimeout
    disp,       \* the goroutine of Handler.Run
    out,        \* what the step just taken wrote: HTTP response, callback answers, reply
    main,       \* the goroutine of main, the readiness flag and the root context
    source      \* updates.Webhook: the shared secret, the closed flag, the channel

vars == <<inputs, cfg, registry, heap, chat, webhooks, subs, timers, disp, out,
          main, source>>

IdleDisp == [pc |-> "idle", update |-> 0, exec |-> 0, promptID |-> 0, answer |-> <<>>,
             result |-> NoResult]

\* the calls a step makes to the chat and to the callback destination, in the order
\* the code makes them; Handler.DeleteMessage calls the chat only for messageID > 0
CallDelete(messageID) ==
    IF messageID > 0 THEN <<[op |-> "delete", id |-> messageID]>> ELSE <<>>
CallSend == <<[op |-> "send", id |-> 0]>>
FinalizeCalls_PostFirst(h, exec) ==
    (IF TrimSpace(h[exec].Request.Callback) = <<>> THEN <<>>
     ELSE <<[op |-> "post", id |-> exec]>>)
    \o <<[op |-> "edit", id |-> h[exec].MessageID]>>

\* Handler.FinalizeExecution: bot.EditMessageText, then Handler.sendWebhook, which
\* posts for an Execution that has a callback URL
FinalizeCalls(h, exec) ==
    <<[op |-> "edit", id |-> h[exec].MessageID]>>
    \o (IF TrimSpace(h[exec].Request.Callback) = <<>> THEN <<>>
        ELSE <<[op |-> "post", id |-> exec]>>)

NoOut == [response |-> NoResponse, answers |-> <<>>, reply |-> EmptyText,
          calls |-> <<>>, route |-> ""]
\* the step that wrote o made calls
Called(o, calls) == [o EXCEPT !.calls = calls]
\* ServeHTTP wrote resp
Responded(resp) == [NoOut EXCEPT !.response = resp]
\* the handling of an update is over; answers: the texts of the answerCallback calls
\* made for it, reply: the text of the Handler.reply made for it
Answered(answers, reply) == [NoOut EXCEPT !.answers = answers, !.reply = reply]
\* handleMessage returned having called nothing
Ignored == [NoOut EXCEPT !.route = "handleMessage"]

DoneSub == [pc |-> "done", exec |-> 0, messageID |-> 0]
DoneTimer == [correlationID |-> <<>>, pc |-> "done", exec |-> 0, promptID |-> 0,
              armedFor |-> 0]

(***************************************************************************)
(* The process (main) and the webhook source of chat updates.              *)
(***************************************************************************)
\* the shared secret of the webhook (config.WebhookSecret)
Secret == <<"s", "1">>

\* main before service.Start: the readiness flag is unset, the root context is not
\* cancelled, the server does not listen, Handler.Run is not running
MainInit == [pc |-> "start", ready |-> FALSE, cancelled |-> FALSE,
             listening |-> FALSE, running |-> FALSE]

\* updates.NewWebhook
NewWebhook(secret) ==
    [secret |-> secret, closed |-> FALSE, updates |-> <<>>, registered |-> FALSE]

InitWith(scenarios) ==
    /\ inputs \in scenarios
    /\ cfg \in Configs
    /\ registry = NewRegistry
    /\ heap = <<>>
    /\ chat = <<>>
    /\ webhooks = <<>>
    /\ subs = <<>>
    /\ timers = <<>>
    /\ disp = IdleDisp
    /\ out = NoOut
    /\ main = MainInit
    /\ source = NewWebhook(Secret)

Init == InitWith(Scenarios)

\* a panic of the dispatcher goroutine ends the process
Running == disp.pc # "panic"

PromptsSent == Cardinality({m \in 1..Len(chat) : chat[m].kind = "prompt"})

(***************************************************************************)
(* POST /execute: ExecuteHandler.ServeHTTP and Service.SubmitExecution.    *)
(***************************************************************************)
\* the response ServeHTTP writes for what SubmitExecution returned
ServeHTTPRespond(res, failed, correlationID) ==
    IF failed /\ res.Status = ""
    THEN respond(StatusInternalServerError, StatusError, Err("execution failed"), <<>>)
    ELSE respond(StatusAccepted, res.Status, res.Output, correlationID)

\* ServeHTTP from the decoding of the body raw to Registry.Add in SubmitExecution
ExecuteRaw(raw) ==
    LET v == ServeHTTPValidate(raw, cfg.Lang)
        added == Add(registry, heap, v.req)
    IN  /\ Running
        /\ Len(subs) < inputs.submits
        /\ IF v.rejected
           THEN /\ subs' = Append(subs, DoneSub)
                /\ out' = Responded(v.response)
                /\ UNCHANGED <<registry, heap, webhooks>>
           ELSE IF added.err
           THEN /\ subs' = Append(subs, DoneSub)
                /\ out' = Responded(ServeHTTPRespond(
                            [Status |-> StatusError,
                             Output |-> Err("execution already exists")],
                            FALSE, v.req.CorrelationID))
                /\ UNCHANGED <<registry, heap, webhooks>>
           ELSE /\ registry' = added.r
                /\ heap' = added.h
                /\ webhooks' = Append(webhooks, <<>>)
                /\ subs' = Append(subs, [pc |-> "send", exec |-> added.exec,
                                         messageID |-> 0])
                /\ out' = NoOut
        /\ UNCHANGED <<main, source, inputs, cfg, chat, timers, disp>>

\* POST /execute with the body RawRequests[i]
Execute(i) == ExecuteRaw(RawRequests[i])

\* req of SubmitExecution for submission s: the value Registry.Add put in the
\* Execution, which nothing changes
ReqOf(s) == heap[subs[s].exec].Request

\* s.bot.SendMessage of the rendered execution message; on its failure
\* SubmitExecution returns and ServeHTTP responds
SubmitSend(s, delivered) ==
    /\ Running
    /\ subs[s].pc = "send"
    /\ IF delivered
       THEN /\ chat' = ChatSend(chat, "anchor", 0)
            /\ subs' = [subs EXCEPT ![s].pc = "attach", ![s].messageID = Len(chat) + 1]
            /\ out' = Called(NoOut, CallSend)
       ELSE /\ chat' = chat
            /\ subs' = [subs EXCEPT ![s] = DoneSub]
            /\ out' = Called(Responded(ServeHTTPRespond(
                        [Status |-> StatusError,
                         Output |-> Err("failed to send telegram message")],
                        TRUE, ReqOf(s).CorrelationID)), CallSend)
    /\ UNCHANGED <<main, source, inputs, cfg, registry, heap, webhooks, timers, disp>>

\* Registry.SetMessage, scheduleTimeout and the response
SubmitAttach(s) ==
    /\ Running
    /\ subs[s].pc = "attach"
    /\ heap' = SetMessage(registry, heap, ReqOf(s).CorrelationID, subs[s].messageID,
                          renderMessage(ReqOf(s)))
    /\ timers' = Append(timers, [correlationID |-> ReqOf(s).CorrelationID,
                                 pc |-> "armed", exec |-> 0, promptID |-> 0,
                                 armedFor |-> subs[s].exec])
    /\ subs' = [subs EXCEPT ![s] = DoneSub]
    /\ out' = Responded(ServeHTTPRespond(
                [Status |-> StatusPending, Output |-> Err("queued")],
                FALSE, ReqOf(s).CorrelationID))
    /\ UNCHANGED <<main, source, inputs, cfg, registry, chat, webhooks, disp>>

(***************************************************************************)
(* The goroutine of Service.scheduleTimeout.                               *)
(***************************************************************************)
\* <-timer.C, then Registry.Resolve; armedFor: the Execution scheduleTimeout was
\* called for
TimerFire(t) ==
    LET res == Resolve(registry, timers[t].correlationID)
    IN  /\ Running
        /\ timers[t].pc = "armed"
        /\ registry' = res.r
        /\ timers' = [timers EXCEPT
                ![t] = IF res.ok
                       THEN [@ EXCEPT !.pc = "finalize", !.exec = res.exec,
                                      !.promptID = res.promptID]
                       ELSE DoneTimer]
        /\ out' = NoOut
        /\ UNCHANGED <<main, source, inputs, cfg, heap, chat, webhooks, subs, disp>>

\* s.handler.DeleteMessage(promptID), then FinalizeExecution: the edit of the anchor
\* message and sendWebhook; deleted, edited: whether the chat calls got through
TimerFinalize(t, deleted, edited) ==
    LET exec == timers[t].exec
        msg == messageFor(heap[exec].Request.Lang, cfg.Lang)
    IN  /\ Running
        /\ timers[t].pc = "finalize"
        /\ chat' = ChatEdit(ChatDelete(chat, timers[t].promptID, deleted),
                            heap[exec].MessageID,
                            noteForResult(msg, TimeoutResult, cfg.TimeoutMessage),
                            edited)
        /\ webhooks' = sendWebhook(webhooks, heap, exec, TimeoutResult)
        /\ timers' = [timers EXCEPT ![t] = DoneTimer]
        /\ out' = Called(NoOut, CallDelete(timers[t].promptID)
                                \o FinalizeCalls(heap, exec))
        /\ UNCHANGED <<main, source, inputs, cfg, registry, heap, subs, disp>>

(***************************************************************************)
(* The goroutine of Handler.Run: one update at a time.                     *)
(***************************************************************************)
allowedChat_Any(chatID) == TRUE

\* Handler.allowedChat
allowedChat(chatID) == chatID = cfg.ChatID

ResultFor_AlwaysText(d) ==
    [Status |-> StatusSuccess,
     Output |-> OutputSelection(heap[d.exec].Request.Question, d.answer, <<>>, TRUE, "text"),
     Note |-> SelectedNoteText(messageFor(heap[d.exec].Request.Lang, cfg.Lang), d.answer)]

\* the Result of an answer, built after the resolution (resolveOption, handleMessage)
ResultFor(d) ==
    LET update == Updates[d.update]
        req == heap[d.exec].Request
        msg == messageFor(req.Lang, cfg.Lang)
    IN  IF update.kind = "callback"
        THEN LET idx == parseOptionPayload(parseCallback(update.data).payload).index
                 selected == req.Options[idx + 1]
             IN  [Status |-> StatusSuccess,
                  Output |-> OutputSelection(req.Question, selected, <<idx>>, FALSE,
                                             "button"),
                  Note |-> SelectedNoteText(msg, selected)]
        ELSE [Status |-> StatusSuccess,
              Output |-> OutputSelection(req.Question, d.answer, <<>>, TRUE,
                                         IF update.text # <<>> THEN "text" ELSE "voice"),
              Note |-> SelectedNoteText(msg, d.answer)]

\* exec.Request.Options[optionIndex] of resolveOption panics when the index is out
\* of the range of the Execution that Resolve returned
IndexPanics(d) ==
    LET update == Updates[d.update]
        idx == parseOptionPayload(parseCallback(update.data).payload).index
    IN  /\ update.kind = "callback"
        /\ (idx < 0 \/ idx >= Len(heap[d.exec].Request.Options))

\* after Registry.Resolve returned res in resolveOption or handleMessage: the
\* Execution and the prompt to delete, and the Result that will be built of them
\* (NoResult where building it panics)
AfterResolve(d, res) ==
    LET d1 == [d EXCEPT !.pc = "finalize", !.exec = res.exec, !.promptID = res.promptID]
    IN  [d1 EXCEPT !.result = IF IndexPanics(d1) THEN NoResult ELSE ResultFor(d1)]

HandleCallback_AnyCustom(u, delivered) ==
    LET query == Updates[u]
        cb == parseCallback(query.data)
        exec == Get(registry, cb.payload)
    IN  /\ query.hasMessage
        /\ allowedChat(query.chatID)
        /\ cb.action = ActionCustom
        /\ exec # 0
        /\ disp' = [IdleDisp EXCEPT !.pc = "custom_start", !.update = u, !.exec = exec]
        /\ out' = NoOut
        /\ UNCHANGED <<registry, heap, chat>>

HandleCallback_NoRangeCheck(u, delivered) ==
    LET query == Updates[u]
        cb == parseCallback(query.data)
        opt == parseOptionPayload(cb.payload)
        optExec == Get(registry, opt.correlationID)
    IN  /\ query.hasMessage
        /\ allowedChat(query.chatID)
        /\ cb.action = ActionOption
        /\ ~opt.err
        /\ optExec # 0
        /\ disp' = [IdleDisp EXCEPT !.pc = "option_resolve", !.update = u,
                                    !.exec = optExec]
        /\ out' = NoOut
        /\ UNCHANGED <<registry, heap, chat>>

\* Handler.handleCallback, up to Registry.Resolve or Registry.StartCustomInput
HandleCallback(u, delivered) ==
    LET query == Updates[u]
        cb == parseCallback(query.data)
        opt == parseOptionPayload(cb.payload)
        default == messageFor(<<>>, cfg.Lang)
        optExec == Get(registry, opt.correlationID)
        exec == Get(registry, cb.payload)
        cleared == ClearPrompt(registry, heap, cb.payload)
        messageID == Atoi(cb.payload)
        answer(text) == /\ disp' = IdleDisp
                        /\ out' = Answered(<<text>>, EmptyText)
                        /\ UNCHANGED <<registry, heap, chat>>
        goto(pc, e) == /\ disp' = [IdleDisp EXCEPT !.pc = pc, !.update = u, !.exec = e]
                       /\ out' = NoOut
                       /\ UNCHANGED <<registry, heap, chat>>
    IN  IF ~query.hasMessage
        THEN /\ disp' = IdleDisp
             /\ out' = NoOut
             /\ UNCHANGED <<registry, heap, chat>>
        ELSE IF ~allowedChat(query.chatID)
        THEN answer(Text(default, "InvalidChat"))
        ELSE IF cb.action = ActionOption
        THEN IF opt.err THEN answer(Text(default, "InvalidAction"))
             ELSE IF optExec = 0 THEN answer(Text(default, "AlreadyResolved"))
             ELSE IF opt.index < 0 \/ opt.index >= Len(heap[optExec].Request.Options)
             THEN answer(Text(messageFor(heap[optExec].Request.Lang, cfg.Lang),
                              "InvalidAction"))
             ELSE goto("option_resolve", optExec)
        ELSE IF cb.action = ActionCustom
        THEN IF exec = 0 THEN answer(Text(default, "AlreadyResolved"))
             ELSE IF ~heap[exec].Request.AllowCustom
             THEN answer(Text(messageFor(heap[exec].Request.Lang, cfg.Lang),
                              "InvalidAction"))
             ELSE goto("custom_start", exec)
        ELSE IF cb.action = ActionCancelCustom
        THEN /\ registry' = cleared.r
             /\ heap' = cleared.h
             /\ chat' = ChatDelete(chat, cleared.removed, delivered)
             /\ disp' = IdleDisp
             /\ out' = Called(Answered(<<EmptyText>>, EmptyText),
                              CallDelete(cleared.removed))
        ELSE IF cb.action = ActionDelete
        THEN IF messageID.err \/ messageID.value <= 0
             THEN answer(Text(default, "InvalidAction"))
             ELSE /\ chat' = ChatDelete(chat, messageID.value, delivered)
                  /\ disp' = IdleDisp
                  /\ out' = Called(Answered(<<EmptyText>>, EmptyText),
                                   CallDelete(messageID.value))
                  /\ UNCHANGED <<registry, heap>>
        ELSE answer(Text(default, "InvalidAction"))

HandleMessage_AnyExecution(u) ==
    LET message == Updates[u]
        ids == DOMAIN registry.executions
        answer == TrimSpace(message.text)
    IN  /\ IF allowedChat(message.chatID) /\ ids # {} /\ answer # <<>>
           THEN /\ disp' = [IdleDisp EXCEPT
                                !.pc = "message_resolve", !.update = u,
                                !.exec = registry.executions[CHOOSE id \in ids : TRUE],
                                !.answer = answer]
                /\ out' = NoOut
           ELSE disp' = IdleDisp /\ out' = Ignored
        /\ UNCHANGED <<registry, heap, chat>>

\* Handler.handleMessage, up to transcribeVoice or Registry.Resolve
HandleMessage(u) ==
    LET message == Updates[u]
        cur == CurrentPrompt(registry, heap)
        answer == TrimSpace(message.text)
        ignore == disp' = IdleDisp /\ out' = Ignored
        goto(pc) == /\ disp' = [IdleDisp EXCEPT !.pc = pc, !.update = u,
                                                !.exec = cur.exec, !.answer = answer]
                    /\ out' = NoOut
    IN  /\ IF ~allowedChat(message.chatID) THEN ignore
           ELSE IF cur.exec = 0 THEN ignore
           ELSE IF ~heap[cur.exec].AwaitingText THEN ignore
           ELSE IF message.text # <<>>
           THEN IF answer = <<>> THEN ignore ELSE goto("message_resolve")
           ELSE IF message.voice
           THEN IF ~cfg.transcriber
                THEN /\ disp' = IdleDisp
                     /\ out' = Answered(<<>>,
                                Text(messageFor(heap[cur.exec].Request.Lang, cfg.Lang),
                                     "VoiceDisabled"))
                ELSE goto("transcribe")
           ELSE ignore
        /\ UNCHANGED <<registry, heap, chat>>

HandleUpdateOf_NoWait(u, delivered) ==
    /\ Running
    /\ IF Updates[u].kind = "callback" THEN HandleCallback(u, delivered)
       ELSE IF Updates[u].kind = "message" THEN HandleMessage(u)
       ELSE /\ disp' = IdleDisp
            /\ out' = NoOut
            /\ UNCHANGED <<registry, heap, chat>>
    /\ UNCHANGED <<inputs, cfg, webhooks, subs, timers>>

\* Handler.HandleUpdate of update u; delivered: whether the deletion that
\* handleCallback may ask of the chat gets through
HandleUpdateOf(u, delivered) ==
    /\ Running
    /\ disp.pc = "idle"
    /\ IF Updates[u].kind = "callback" THEN HandleCallback(u, delivered)
       ELSE IF Updates[u].kind = "message" THEN HandleMessage(u)
       ELSE /\ disp' = IdleDisp
            /\ out' = NoOut
            /\ UNCHANGED <<registry, heap, chat>>
    /\ UNCHANGED <<inputs, cfg, webhooks, subs, timers>>

\* the dispatcher takes the next update, handed to it by the update source
HandleUpdate(u, delivered) ==
    HandleUpdateOf(u, delivered) /\ UNCHANGED <<main, source>>

\* resolveOption: Registry.Resolve
OptionResolve ==
    LET id == parseOptionPayload(parseCallback(Updates[disp.update].data).payload).correlationID
        res == Resolve(registry, id)
    IN  /\ Running
        /\ disp.pc = "option_resolve"
        /\ registry' = res.r
        /\ IF ~res.ok
           THEN /\ disp' = IdleDisp
                /\ out' = Answered(<<Text(messageFor(<<>>, cfg.Lang), "AlreadyResolved")>>,
                                   EmptyText)
           ELSE /\ disp' = AfterResolve(disp, res)
                /\ out' = NoOut
        /\ UNCHANGED <<main, source, inputs, cfg, heap, chat, webhooks, subs, timers>>

\* handleMessage: Registry.Resolve of the Execution that CurrentPrompt returned
MessageResolve ==
    LET res == Resolve(registry, heap[disp.exec].Request.CorrelationID)
    IN  /\ Running
        /\ disp.pc = "message_resolve"
        /\ registry' = res.r
        /\ disp' = IF ~res.ok THEN IdleDisp ELSE AfterResolve(disp, res)
        /\ out' = NoOut
        /\ UNCHANGED <<main, source, inputs, cfg, heap, chat, webhooks, subs, timers>>

Transcribe_AnyOutcome(outcome) ==
    /\ Running
    /\ disp.pc = "transcribe"
    /\ disp' = [disp EXCEPT !.pc = "message_resolve", !.answer = outcome.text]
    /\ out' = NoOut
    /\ UNCHANGED <<main, source, inputs, cfg, registry, heap, chat, webhooks, subs, timers>>

\* handleMessage: transcribeVoice returned
Transcribe(outcome) ==
    LET answer == TrimSpace(outcome.text)
    IN  /\ Running
        /\ disp.pc = "transcribe"
        /\ IF outcome.err
           THEN /\ disp' = IdleDisp
                /\ out' = Answered(<<>>,
                            Text(messageFor(heap[disp.exec].Request.Lang, cfg.Lang),
                                 "TranscriptionFailed"))
           ELSE /\ disp' = IF answer = <<>> THEN IdleDisp
                           ELSE [disp EXCEPT !.pc = "message_resolve", !.answer = answer]
                /\ out' = NoOut
        /\ UNCHANGED <<main, source, inputs, cfg, registry, heap, chat, webhooks, subs, timers>>

DispFinalize_StopOnEditFailure(deleted, edited) ==
    LET msg == messageFor(heap[disp.exec].Request.Lang, cfg.Lang)
        afterDelete == ChatDelete(chat, disp.promptID, deleted)
    IN  /\ Running
        /\ disp.pc = "finalize"
        /\ disp.result # NoResult
        /\ chat' = ChatEdit(afterDelete, heap[disp.exec].MessageID,
                            noteForResult(msg, disp.result, <<>>), edited)
        /\ webhooks' = IF EditSucceeds(afterDelete, heap[disp.exec].MessageID, edited)
                       THEN sendWebhook(webhooks, heap, disp.exec, disp.result)
                       ELSE webhooks
        /\ disp' = IdleDisp
        /\ out' = Called(Answered(IF disp.answer = <<>>
                                  THEN <<disp.result.Note>> ELSE <<>>,
                                  EmptyText),
                         CallDelete(disp.promptID) \o FinalizeCalls(heap, disp.exec))
        /\ UNCHANGED <<main, source, inputs, cfg, registry, heap, subs, timers>>

\* after a resolution: h.DeleteMessage(promptID), the Result, FinalizeExecution (the
\* edit of the anchor message, sendWebhook) and, for a callback query, its answer;
\* deleted, edited: whether the chat calls got through; disp.answer is set by the
\* text and voice paths only, so it is empty exactly on the callback path, where
\* resolveOption answers the query with the note
DispFinalize(deleted, edited) ==
    LET msg == messageFor(heap[disp.exec].Request.Lang, cfg.Lang)
        afterDelete == ChatDelete(chat, disp.promptID, deleted)
    IN  /\ Running
        /\ disp.pc = "finalize"
        /\ IF disp.result = NoResult
           THEN /\ chat' = afterDelete
                /\ webhooks' = webhooks
                /\ disp' = [disp EXCEPT !.pc = "panic"]
                /\ out' = Called(NoOut, CallDelete(disp.promptID))
           ELSE /\ chat' = ChatEdit(afterDelete, heap[disp.exec].MessageID,
                                    noteForResult(msg, disp.result, <<>>), edited)
                /\ webhooks' = sendWebhook(webhooks, heap, disp.exec, disp.result)
                /\ disp' = IdleDisp
                /\ out' = Called(Answered(IF disp.answer = <<>>
                                          THEN <<disp.result.Note>> ELSE <<>>,
                                          EmptyText),
                                 CallDelete(disp.promptID)
                                 \o FinalizeCalls(heap, disp.exec))
        /\ UNCHANGED <<main, source, inputs, cfg, registry, heap, subs, timers>>

\* startCustomPrompt: Registry.StartCustomInput
CustomStart ==
    LET id == parseCallback(Updates[disp.update].data).payload
        res == StartCustomInput(registry, heap, id)
    IN  /\ Running
        /\ disp.pc = "custom_start"
        /\ registry' = res.r
        /\ heap' = res.h
        /\ IF ~res.ok
           THEN /\ disp' = IdleDisp
                /\ out' = Answered(<<Text(messageFor(heap[disp.exec].Request.Lang,
                                                     cfg.Lang),
                                          "AlreadyResolved")>>,
                                   EmptyText)
           ELSE /\ disp' = [disp EXCEPT !.pc = "custom_send",
                                        !.promptID = res.previousPrompt]
                /\ out' = NoOut
        /\ UNCHANGED <<main, source, inputs, cfg, chat, webhooks, subs, timers>>

CustomSend_ClearsOnFailure(deleted, delivered) ==
    LET afterDelete == ChatDelete(chat, disp.promptID, deleted)
        cleared == ClearPrompt(registry, heap, heap[disp.exec].Request.CorrelationID)
    IN  /\ Running
        /\ disp.pc = "custom_send"
        /\ IF delivered
           THEN /\ PromptsSent < inputs.prompts
                /\ chat' = ChatSend(afterDelete, "prompt", heap[disp.exec].MessageID)
                /\ disp' = [disp EXCEPT !.pc = "custom_set", !.promptID = Len(chat) + 1]
                /\ out' = Called(NoOut, CallDelete(disp.promptID) \o CallSend)
                /\ UNCHANGED <<registry, heap>>
           ELSE /\ chat' = afterDelete
                /\ disp' = IdleDisp
                /\ registry' = cleared.r
                /\ heap' = cleared.h
                /\ out' = Called(Answered(<<Text(messageFor(heap[disp.exec].Request.Lang,
                                                            cfg.Lang),
                                                 "ErrorNote")>>,
                                          EmptyText),
                                 CallDelete(disp.promptID) \o CallSend)
        /\ UNCHANGED <<main, source, inputs, cfg, webhooks, subs, timers>>

\* startCustomPrompt: h.DeleteMessage(prevPromptID), then bot.SendMessage of the
\* prompt, a reply to exec.MessageID (read without the registry's mutex)
CustomSend(deleted, delivered) ==
    LET afterDelete == ChatDelete(chat, disp.promptID, deleted)
    IN  /\ Running
        /\ disp.pc = "custom_send"
        /\ IF delivered
           THEN /\ PromptsSent < inputs.prompts
                /\ chat' = ChatSend(afterDelete, "prompt", heap[disp.exec].MessageID)
                /\ disp' = [disp EXCEPT !.pc = "custom_set", !.promptID = Len(chat) + 1]
                /\ out' = Called(NoOut, CallDelete(disp.promptID) \o CallSend)
           ELSE /\ chat' = afterDelete
                /\ disp' = IdleDisp
                /\ out' = Called(Answered(<<Text(messageFor(heap[disp.exec].Request.Lang,
                                                            cfg.Lang),
                                                 "ErrorNote")>>,
                                          EmptyText),
                                 CallDelete(disp.promptID) \o CallSend)
        /\ UNCHANGED <<main, source, inputs, cfg, registry, heap, webhooks, subs, timers>>

\* startCustomPrompt: Registry.SetPromptMessage and the answer
CustomSet ==
    /\ Running
    /\ disp.pc = "custom_set"
    /\ registry' = SetPromptMessage(registry,
                                    parseCallback(Updates[disp.update].data).payload,
                                    disp.promptID)
    /\ disp' = IdleDisp
    /\ out' = Answered(<<EmptyText>>, EmptyText)
    /\ UNCHANGED <<main, source, inputs, cfg, heap, chat, webhooks, subs, timers>>

Next ==
    \/ \E i \in inputs.raws : Execute(i)
    \/ \E s \in 1..Len(subs), delivered \in BOOLEAN : SubmitSend(s, delivered)
    \/ \E s \in 1..Len(subs) : SubmitAttach(s)
    \/ \E t \in 1..Len(timers) : TimerFire(t)
    \/ \E t \in 1..Len(timers), deleted, edited \in inputs.deliveries :
            TimerFinalize(t, deleted, edited)
    \/ \E u \in inputs.updates, delivered \in inputs.deliveries :
            HandleUpdate(u, delivered)
    \/ OptionResolve
    \/ MessageResolve
    \/ \E outcome \in VoiceOutcomes : Transcribe(outcome)
    \/ \E deleted, edited \in inputs.deliveries : DispFinalize(deleted, edited)
    \/ CustomStart
    \/ \E deleted \in inputs.deliveries, delivered \in BOOLEAN :
            CustomSend(deleted, delivered)
    \/ CustomSet

Spec == Init /\ [][Next]_vars


(***************************************************************************)
(* What the properties below speak of.                                     *)
(***************************************************************************)
Execs == DOMAIN heap
CorrelationIDOf(e) == heap[e].Request.CorrelationID
\* Execution e is in the registry
Live(e) == Has(registry, CorrelationIDOf(e)) /\ registry.executions[CorrelationIDOf(e)] = e
LiveExecs == {e \in Execs : Live(e)}
\* the timers holding e as the Execution their Resolve returned
TimersHolding(e) == {t \in 1..Len(timers) : timers[t].pc = "finalize" /\ timers[t].exec = e}
\* the dispatcher holds e as the Execution its Resolve returned
DispHolds(e) == disp.pc \in {"finalize", "panic"} /\ disp.exec = e
\* the successful resolutions of e: those still being finalized, those finalized
TimesResolved(e) ==
    Cardinality(TimersHolding(e)) + (IF DispHolds(e) THEN 1 ELSE 0) + Len(webhooks[e])

\* C1: an Execution is removed from the registry by at most one resolution attempt
\* (a click, a text or voice answer, a timer), and only what removed it finalizes it;
\* an attempt that finds the correlation id absent leaves the registry, the chat and
\* the callbacks as they were, and an attempt that succeeds removes what it returns.
C1_ResolvedOnce ==
    /\ [](\A e \in Execs :
            /\ TimesResolved(e) <= 1
            /\ Live(e) => TimesResolved(e) = 0)
    /\ [][/\ \A t \in 1..Len(timers) :
                timers[t].pc = "armed" /\ timers'[t].pc # "armed" =>
                    IF timers'[t].pc = "finalize"
                    THEN registry.executions[timers[t].correlationID] = timers'[t].exec
                         /\ ~Has(registry', timers[t].correlationID)
                    ELSE /\ ~Has(registry, timers[t].correlationID)
                         /\ UNCHANGED <<registry, heap, chat, webhooks>>
          /\ disp.pc \in {"option_resolve", "message_resolve"} /\ disp'.pc # disp.pc =>
                IF disp'.pc = "finalize"
                THEN Live(disp'.exec) /\ ~Has(registry', CorrelationIDOf(disp'.exec))
                ELSE UNCHANGED <<registry, heap, chat, webhooks>>]_vars

\* a click and the timer of one Execution: the dispatcher got the Execution from
\* Registry.Get and is about to call Registry.Resolve, which the timer has won
C1_Witness ==
    /\ disp.pc = "option_resolve"
    /\ ~Live(disp.exec)
    /\ \E t \in TimersHolding(disp.exec) : timers[t].armedFor = disp.exec

\* C2 as stated: of the Executions that carry one correlation id, at most one callback
\* POST is issued.
C2_AsClaimed ==
    \A e1, e2 \in Execs :
        e1 # e2 /\ CorrelationIDOf(e1) = CorrelationIDOf(e2) =>
            Len(webhooks[e1]) + Len(webhooks[e2]) <= 1

\* C2, amended: for every Execution accepted into the registry at most one callback
\* POST is issued, and it carries the correlation id, the tool of that Execution.
C2_OnePostPerExecution ==
    \A e \in Execs :
        /\ Len(webhooks[e]) <= 1
        /\ \A k \in 1..Len(webhooks[e]) :
            /\ webhooks[e][k].correlation_id = CorrelationIDOf(e)
            /\ webhooks[e][k].tool = heap[e].Request.Tool

\* a correlation id submitted again after its Execution was resolved: each of the
\* two Executions got its POST
C2_Witness ==
    \E e1, e2 \in Execs :
        /\ e1 # e2
        /\ CorrelationIDOf(e1) = CorrelationIDOf(e2)
        /\ Len(webhooks[e1]) = 1
        /\ Len(webhooks[e2]) = 1

AwaitingLive == {e \in LiveExecs : heap[e].AwaitingText}

\* C3: at most one Execution of the registry has AwaitingText set; if one has, the
\* prompt singleton names it; and a non-empty singleton names an Execution of the
\* registry that has AwaitingText set.
C3_PromptSingleton ==
    /\ Cardinality(AwaitingLive) <= 1
    /\ \A e \in AwaitingLive : registry.promptCorrelation = CorrelationIDOf(e)
    /\ registry.promptCorrelation # <<>> =>
        /\ Has(registry, registry.promptCorrelation)
        /\ heap[registry.executions[registry.promptCorrelation]].AwaitingText

\* two Executions in the registry, the custom input having passed from one, whose
\* prompt is still to be deleted, to the other
C3_Witness ==
    /\ Cardinality(LiveExecs) = 2
    /\ disp.pc = "custom_send"
    /\ disp.promptID > 0
    /\ AwaitingLive = {disp.exec}

(***************************************************************************)
(* The specification of the liveness property: fewer runs, and the steps   *)
(* that follow a successful send, a timer's expiry and a resolution are    *)
(* taken once they can be (the goroutines are scheduled, time.Timer fires).*)
(***************************************************************************)
FairScenarios == {
    [raws |-> {1, 3}, updates |-> {2}, deliveries |-> {TRUE},
     submits |-> MaxSubmits, prompts |-> MaxPrompts],
    [raws |-> {2}, updates |-> {3, 9, 24, 26}, deliveries |-> {TRUE},
     submits |-> MaxSubmits - 1, prompts |-> MaxPrompts - 1] }

FairInit == InitWith(FairScenarios)

Fairness ==
    /\ \A s \in 1..MaxSubmits : WF_vars(s \in 1..Len(subs) /\ SubmitAttach(s))
    /\ \A t \in 1..MaxSubmits : WF_vars(t \in 1..Len(timers) /\ TimerFire(t))
    /\ \A t \in 1..MaxSubmits :
        WF_vars(/\ t \in 1..Len(timers)
                /\ \E deleted, edited \in inputs.deliveries :
                        TimerFinalize(t, deleted, edited))
    /\ WF_vars(\E deleted, edited \in inputs.deliveries : DispFinalize(deleted, edited))

FairSpec == FairInit /\ [][Next]_vars /\ Fairness

\* bot.SendMessage of the execution message of e succeeded, SubmitExecution goes on
SendSucceeded(e) == \E s \in 1..Len(subs) : subs[s].pc = "attach" /\ subs[s].exec = e
\* e is out of the registry and its callback POST is issued
Finalized(e) == ~Live(e) /\ Len(webhooks[e]) = 1

\* C4: an Execution whose execution message was sent is, while the process runs,
\* eventually out of the registry and finalized with a callback POST; a POST with
\* status error is the one of the timer: its result is "execution timeout".
C4_EventuallyFinalized ==
    /\ \A e \in 1..MaxSubmits :
        (e \in Execs /\ SendSucceeded(e)) ~> (~Running \/ (e \in Execs /\ Finalized(e)))
    /\ [](\A e \in Execs : \A k \in 1..Len(webhooks[e]) :
            \/ webhooks[e][k].status = StatusSuccess
            \/ /\ webhooks[e][k].status = StatusError
               /\ webhooks[e][k].result = OutputString(timeoutResult))

\* an Execution finalized by its timer, no operator having answered
C4_Witness ==
    \E e \in Execs :
        /\ Finalized(e)
        /\ heap[e].MessageID > 0
        /\ webhooks[e][1].status = StatusError
        /\ webhooks[e][1].result = OutputString(timeoutResult)
        /\ chat[heap[e].MessageID].state = "edited"

\* C5 as stated: the timer armed for an Execution removes and finalizes no other
\* Execution: when its own one is resolved already, it does nothing.
C5_AsClaimed ==
    \A t \in 1..Len(timers) :
        timers[t].pc = "finalize" => timers[t].exec = timers[t].armedFor

\* the request of raw request i, for the accepted ones
RequestOf(i) == ServeHTTPValidate(RawRequests[i], cfg.Lang)
\* raw request i passes the validation and its correlation id is in the registry
Duplicate(i) == ~RequestOf(i).rejected /\ Has(registry, RequestOf(i).req.CorrelationID)

\* C6: the submission of a correlation id that is in the registry is answered with
\* status error and "execution already exists"; the registry, its Executions and the
\* prompt singleton stay as they are, nothing is sent to the chat, no timer is armed.
C6_DuplicateRejected ==
    [][Len(subs') > Len(subs) =>
        \A i \in inputs.raws :
            Duplicate(i) /\ Execute(i) =>
                /\ out'.response.status = StatusError
                /\ out'.response.result = Err("execution already exists")
                /\ out'.response.correlation_id = RequestOf(i).req.CorrelationID
                /\ subs' = Append(subs, DoneSub)
                /\ UNCHANGED <<registry, heap, chat, webhooks, timers>>]_vars

\* a submission was just answered "execution already exists" while an Execution
\* with its correlation id awaits its answer in the chat
C6_Witness ==
    /\ out.response.result = Err("execution already exists")
    /\ \E e \in LiveExecs :
        /\ CorrelationIDOf(e) = out.response.correlation_id
        /\ heap[e].MessageID > 0

\* C7 as stated: the response to a submission whose execution message could not be
\* sent has the HTTP status 500.
C7_AsClaimed ==
    out.response.result = Err("failed to send telegram message") =>
        out.response.http = StatusInternalServerError

\* C8 as stated: a response has the HTTP status 202 exactly when it carries the
\* status pending and "queued", and a response with the status error has the HTTP
\* status 400 or 500.
C8_AsClaimed ==
    out.response # NoResponse =>
        /\ out.response.http = StatusAccepted <=>
                /\ out.response.status = StatusPending
                /\ out.response.result = Err("queued")
        /\ out.response.status = StatusError =>
                out.response.http \in {StatusBadRequest, StatusInternalServerError}

\* the raw requests that fail the validation: blank correlation id (4, 8), blank
\* tool name (9), unknown markup (10), callback url missing or blank (11, 12),
\* question (13..16), context (17) or options (5, 18..26) out of their bounds
InvalidRaws == {4, 5} \cup (8..26)
\* the message of each
ValidationMessage(i) ==
    IF i \in {4, 8} THEN Err("correlation_id is required")
    ELSE IF i = 9 THEN Err("tool.name is required")
    ELSE IF i = 10 THEN Err("markup must be markdown or html")
    ELSE IF i \in {11, 12} THEN Err("callback.url is required for async execution")
    ELSE parseFeedbackArgs(RawRequests[i].arguments, RawRequests[i].spec).err

\* C9: a request that fails the validation is answered with the HTTP status 400, the
\* status error and the validation message; the registry stays as it is, nothing is
\* sent to the chat and no timer is armed.
C9_ValidationRejected ==
    [][Len(subs') > Len(subs) =>
        \A i \in inputs.raws \cap InvalidRaws :
            Execute(i) =>
                /\ out'.response.http = StatusBadRequest
                /\ out'.response.status = StatusError
                /\ out'.response.result = ValidationMessage(i)
                /\ ValidationMessage(i).msg # ""
                /\ subs' = Append(subs, DoneSub)
                /\ UNCHANGED <<registry, heap, chat, webhooks, timers>>]_vars

\* a request was just rejected for its markup, after another one was accepted
C9_Witness ==
    /\ out.response.http = StatusBadRequest
    /\ out.response.result = Err("markup must be markdown or html")
    /\ LiveExecs # {}

\* update u comes from a chat that is not the configured one
Unauthorized(u) ==
    /\ Updates[u].kind \in {"callback", "message"}
    /\ Updates[u].hasMessage
    /\ Updates[u].chatID # cfg.ChatID
InvalidChatAnswer ==
    Answered(<<Text(messageFor(<<>>, cfg.Lang), "InvalidChat")>>, EmptyText)

\* C10: the handling of an update from a chat that is not the configured one changes
\* neither the registry nor its Executions, causes no edit and no deletion in the
\* chat and no callback POST; a callback query is answered with the InvalidChat text
\* of the process language, a message is answered nothing.
C10_UnauthorizedIgnored ==
    [][disp.pc = "idle" =>
        \A u \in inputs.updates :
            Unauthorized(u) /\ (\E delivered \in BOOLEAN : HandleUpdate(u, delivered)) =>
                /\ UNCHANGED <<registry, heap, chat, webhooks, timers, subs>>
                /\ disp' = IdleDisp
                /\ out' = IF Updates[u].kind = "callback" THEN InvalidChatAnswer
                          ELSE Ignored]_vars

\* a callback query from another chat was just answered InvalidChat while an
\* Execution of the registry owns the prompt
C10_Witness ==
    /\ out = InvalidChatAnswer
    /\ AwaitingLive # {}
    /\ registry.promptMessageID > 0

(***************************************************************************)
(* The dispatcher's answers to callback queries.                           *)
(***************************************************************************)
\* this step ends the handling of update u: taken and ended in one step of
\* HandleUpdate, or taken earlier and ended by a later step of the dispatcher
FinishesHandling(u) ==
    /\ disp'.pc = "idle"
    /\ IF disp.pc = "idle" THEN \E delivered \in BOOLEAN : HandleUpdate(u, delivered)
       ELSE disp.update = u

\* C11 as stated: the handling of a callback query, whatever its action, payload,
\* chat and anchor reference, issues exactly one AnswerCallbackQuery.
C11_AsClaimed ==
    [][\A u \in AllUpdates :
        Updates[u].kind = "callback" /\ FinishesHandling(u) =>
            Len(out'.answers) = 1]_vars

(***************************************************************************)
(* The custom-input prompt: runs with two executions and custom clicks on  *)
(* both, with one execution, a custom click and answers of every kind.     *)
(***************************************************************************)
PromptScenarios == {
    \* two executions, a custom click on each
    [raws |-> {1, 2}, updates |-> {8, 9}, deliveries |-> {TRUE},
     submits |-> MaxSubmits, prompts |-> MaxPrompts,
     configs |-> {c \in Configs : c.transcriber}],
    \* two executions, a custom click and a text answer
    [raws |-> {1, 2}, updates |-> {8, 24}, deliveries |-> {TRUE},
     submits |-> MaxSubmits, prompts |-> MaxPrompts - 1,
     configs |-> {c \in Configs : c.transcriber}],
    \* one execution, its option, custom and cancel buttons, the cancel button of
    \* an execution that is not there, text and voice messages
    [raws |-> {2}, updates |-> {3, 9, 10, 11, 24, 25, 26, 27}, deliveries |-> {TRUE},
     submits |-> MaxSubmits - 1, prompts |-> MaxPrompts - 1,
     configs |-> Configs],
    \* an execution that allows no custom answer and one that does, a custom click
    \* on each
    [raws |-> {2, 3}, updates |-> {8, 9}, deliveries |-> {TRUE},
     submits |-> MaxSubmits, prompts |-> MaxPrompts - 1,
     configs |-> {c \in Configs : ~c.transcriber}] }

PromptInit == InitWith(PromptScenarios) /\ cfg \in inputs.configs

PromptSpec == PromptInit /\ [][Next]_vars

\* the correlation id of the custom click being handled
CustomID == parseCallback(Updates[disp.update].data).payload

\* Execution e is in registry r
LiveIn(r, h, e) ==
    /\ Has(r, h[e].Request.CorrelationID)
    /\ r.executions[h[e].Request.CorrelationID] = e

\* C12: a custom click on r2 while another live execution r1 owns the prompt P1:
\* StartCustomInput leaves r1 in the registry with awaiting_text false and hands P1
\* to the caller, which deletes it from the chat and sends P2; with r2 still live,
\* SetPromptMessage then leaves r2 the owner of the singleton, awaiting text, with
\* P2 recorded, and no other live execution awaiting text.
C12_PromptHandover ==
    [][/\ CustomStart /\ disp'.pc = "custom_send"
          /\ registry.promptCorrelation \notin {<<>>, CustomID}
          /\ Has(registry, registry.promptCorrelation) =>
            LET r1 == registry.executions[registry.promptCorrelation]
            IN  /\ LiveIn(registry', heap', r1)
                /\ ~heap'[r1].AwaitingText
                /\ disp'.promptID = registry.promptMessageID
                /\ registry'.promptCorrelation = CustomID
       /\ (\E deleted \in inputs.deliveries : CustomSend(deleted, TRUE))
          /\ inputs.deliveries = {TRUE} =>
            /\ ~Shown(chat', disp.promptID)
            /\ Shown(chat', disp'.promptID)
            /\ chat'[disp'.promptID].kind = "prompt"
            /\ disp'.promptID # disp.promptID
       /\ CustomSet /\ Live(disp.exec) =>
            /\ registry'.promptCorrelation = CustomID
            /\ registry'.promptMessageID = disp.promptID
            /\ heap'[disp.exec].AwaitingText
            /\ LiveIn(registry', heap', disp.exec)
            /\ \A e \in LiveExecs' \ {disp.exec} : ~heap'[e].AwaitingText
      ]_vars

\* custom:r1 and then custom:r2 were clicked: P1 is deleted, r1 is live and awaits
\* no text, r2 owns the singleton with P2, which is shown
C12_Witness ==
    \E r1, r2 \in LiveExecs :
        /\ r1 # r2
        /\ disp.pc = "idle"
        /\ heap[r1].MessageID > 0 /\ heap[r2].MessageID > 0
        /\ ~heap[r1].AwaitingText /\ heap[r2].AwaitingText
        /\ registry.promptCorrelation = CorrelationIDOf(r2)
        /\ Shown(chat, registry.promptMessageID)
        /\ chat[registry.promptMessageID].replyTo = heap[r2].MessageID
        /\ \E p1 \in 1..Len(chat) :
            /\ chat[p1].kind = "prompt"
            /\ chat[p1].replyTo = heap[r1].MessageID
            /\ chat[p1].state = "deleted"

\* the timer's handling of e is over: e is out of the registry and its callback
\* POST reports the timeout
TimedOut(e) ==
    /\ ~Live(e)
    /\ Len(webhooks[e]) = 1
    /\ webhooks[e][1].result = OutputString(timeoutResult)

\* the prompt messages sent for e: startCustomPrompt sends them as replies to the
\* execution message of e
PromptsOf(e) ==
    {m \in 1..Len(chat) : /\ chat[m].kind = "prompt"
                          /\ heap[e].MessageID > 0
                          /\ chat[m].replyTo = heap[e].MessageID}

\* C13 as stated: with chat deletions succeeding, once the timer has finalized an
\* execution and the dispatcher handles no click, no prompt message sent for that
\* execution is left in the chat.
C13_AsClaimed ==
    inputs.deliveries = {TRUE} /\ disp.pc = "idle" =>
        \A e \in Execs : TimedOut(e) => \A m \in PromptsOf(e) : ~Shown(chat, m)

\* Execution e owns the active prompt
OwnsPrompt(e) ==
    /\ Live(e)
    /\ heap[e].AwaitingText
    /\ registry.promptCorrelation = CorrelationIDOf(e)

\* e owns the active prompt of registry r
OwnsPromptIn(r, h, e) ==
    /\ LiveIn(r, h, e)
    /\ h[e].AwaitingText
    /\ r.promptCorrelation = h[e].Request.CorrelationID

\* a text of white space only
Blank(text) == \A k \in 1..Len(text) : IsSpace(text[k])

\* the authorized messages of Updates, by what they carry
BlankTexts == {u \in AllUpdates : /\ Updates[u].kind = "message"
                                  /\ allowedChat(Updates[u].chatID)
                                  /\ Updates[u].text # <<>>
                                  /\ Blank(Updates[u].text)}
Texts == {u \in AllUpdates : /\ Updates[u].kind = "message"
                             /\ allowedChat(Updates[u].chatID)
                             /\ ~Blank(Updates[u].text)}
Voices == {u \in AllUpdates : /\ Updates[u].kind = "message"
                              /\ allowedChat(Updates[u].chatID)
                              /\ Updates[u].text = <<>>
                              /\ Updates[u].voice}

\* the step leaves the registry, the executions, the chat and the callbacks alone
NothingResolved == UNCHANGED <<registry, heap, chat, webhooks>>

\* C14: while e owns the prompt, a blank text, a voice message without a
\* transcriber, a failed transcription and an empty transcript end the handling of
\* the message with the registry, the executions, the chat and the callbacks
\* unchanged (replying VoiceDisabled, TranscriptionFailed where due), so e still owns
\* the prompt; and a non-blank text then received is taken for e and resolves it
\* with input_mode "text".
C14_FailedAnswerKeepsPrompt ==
    [][\A e \in Execs : OwnsPrompt(e) /\ disp.pc = "idle" =>
        LET msg == messageFor(heap[e].Request.Lang, cfg.Lang)
        IN  /\ \A u \in BlankTexts : HandleUpdate(u, TRUE) =>
                NothingResolved /\ disp' = IdleDisp /\ out' = Ignored
                /\ OwnsPromptIn(registry', heap', e)
            /\ \A u \in Voices : HandleUpdate(u, TRUE) =>
                /\ NothingResolved /\ OwnsPromptIn(registry', heap', e)
                /\ IF cfg.transcriber
                   THEN disp'.pc = "transcribe" /\ disp'.exec = e /\ out' = NoOut
                   ELSE disp' = IdleDisp
                        /\ out' = Answered(<<>>, Text(msg, "VoiceDisabled"))
            /\ \A u \in Texts : HandleUpdate(u, TRUE) =>
                /\ NothingResolved
                /\ disp'.pc = "message_resolve" /\ disp'.exec = e
                /\ disp'.answer = TrimSpace(Updates[u].text)
       ]_vars
    /\ [][\A outcome \in VoiceOutcomes :
            Transcribe(outcome) /\ (outcome.err \/ Blank(outcome.text)) =>
                /\ NothingResolved /\ disp' = IdleDisp
                /\ OwnsPrompt(disp.exec) => OwnsPromptIn(registry', heap', disp.exec)
                /\ out' = IF outcome.err
                          THEN Answered(<<>>, Text(messageFor(heap[disp.exec].Request.Lang,
                                                              cfg.Lang),
                                                   "TranscriptionFailed"))
                          ELSE NoOut]_vars
    /\ [][MessageResolve /\ disp.update \in Texts /\ Live(disp.exec) =>
            /\ ~LiveIn(registry', heap', disp.exec)
            /\ disp'.pc = "finalize"
            /\ disp'.exec = disp.exec
            /\ disp'.result.Status = StatusSuccess
            /\ disp'.result.Output.input_mode = "text"]_vars

\* a transcription just failed while an execution owns the prompt: the operator was
\* told so and the execution still awaits its text
C14_Witness ==
    \E e \in Execs :
        /\ OwnsPrompt(e)
        /\ registry.promptMessageID > 0
        /\ disp = IdleDisp
        /\ webhooks[e] = <<>>
        /\ out.reply = Text(messageFor(heap[e].Request.Lang, cfg.Lang), "TranscriptionFailed")

(***************************************************************************)
(* Answers: option buttons and text messages.                              *)
(***************************************************************************)
\* what parseOptionPayload makes of the data of update u
OptionOf(u) == parseOptionPayload(parseCallback(Updates[u].data).payload)

\* update u is an option click that handleCallback hands to resolveOption, and
\* that parseOptionPayload accepts
IsOptionClick(u) ==
    /\ Updates[u].kind = "callback"
    /\ Updates[u].hasMessage
    /\ allowedChat(Updates[u].chatID)
    /\ parseCallback(Updates[u].data).action = ActionOption
    /\ ~OptionOf(u).err

\* the callback POST of a finalization of Execution e with the output given
WebhookOf(e, status, output) ==
    [correlation_id |-> heap[e].Request.CorrelationID, status |-> status,
     result |-> output, tool |-> heap[e].Request.Tool]

\* C15: an option click of the authorized chat for a live execution, its index i
\* within the options, is handed to Registry.Resolve; when the execution is live
\* there, it is removed and finalized: one callback POST with the status success,
\* selected_option = options[i], selected_index = i, custom = false, input_mode
\* "button", the correlation id of the click and the tool of the execution; the
\* prompt message it owned is deleted, and the click is answered with the note.
C15_OptionResolves ==
    /\ [][\A u \in inputs.updates : \A e \in LiveExecs :
            (/\ disp.pc = "idle"
             /\ IsOptionClick(u)
             /\ HandleUpdate(u, TRUE)
             /\ CorrelationIDOf(e) = OptionOf(u).correlationID
             /\ OptionOf(u).index >= 0
             /\ OptionOf(u).index < Len(heap[e].Request.Options)) =>
                NothingResolved /\ disp'.pc = "option_resolve" /\ disp'.exec = e]_vars
    /\ [][OptionResolve /\ Live(disp.exec) =>
            LET i == OptionOf(disp.update).index
                req == heap[disp.exec].Request
            IN  /\ ~LiveIn(registry', heap', disp.exec)
                /\ disp'.pc = "finalize"
                /\ disp'.exec = disp.exec
                /\ disp'.promptID = IF OwnsPrompt(disp.exec)
                                    THEN registry.promptMessageID ELSE 0
                /\ registry'.promptCorrelation # req.CorrelationID
                /\ disp'.result.Status = StatusSuccess
                /\ disp'.result.Output =
                        OutputSelection(req.Question, req.Options[i + 1], <<i>>, FALSE,
                                        "button")]_vars
    /\ [][(\E edited \in BOOLEAN : DispFinalize(TRUE, edited))
          /\ IsOptionClick(disp.update) /\ disp.result # NoResult =>
            /\ webhooks'[disp.exec] =
                    <<WebhookOf(disp.exec, StatusSuccess, disp.result.Output)>>
            /\ webhooks'[disp.exec][1].correlation_id = OptionOf(disp.update).correlationID
            /\ disp.promptID > 0 => ~Shown(chat', disp.promptID)
            /\ out'.answers = <<disp.result.Note>>]_vars

\* an option was clicked for an execution that owned the prompt: the callback
\* reports the option, the prompt message is deleted
C15_Witness ==
    \E e \in Execs :
        /\ ~Live(e)
        /\ Len(webhooks[e]) = 1
        /\ webhooks[e][1].status = StatusSuccess
        /\ webhooks[e][1].result.input_mode = "button"
        /\ webhooks[e][1].result.selected_index = <<2>>
        /\ \E m \in PromptsOf(e) : chat[m].state = "deleted"
        /\ Len(out.answers) = 1

\* C16: Registry.Resolve called for the text answer to the prompt of a live
\* execution E removes E and only E: E owned the prompt, the singleton is emptied
\* and its prompt message handed over for deletion, every other live execution
\* stays in the registry as it was; the finalization deletes the prompt message
\* and issues one callback POST for E, with selected_option = the trimmed text,
\* selected_index = null, custom = true, input_mode = "text", and none for any
\* other execution.
C16_TextResolvesOwner ==
    /\ [][MessageResolve /\ disp.update \in Texts /\ Live(disp.exec) =>
            /\ OwnsPrompt(disp.exec)
            /\ ~LiveIn(registry', heap', disp.exec)
            /\ registry'.promptCorrelation = <<>>
            /\ registry'.promptMessageID = 0
            /\ heap' = heap
            /\ \A e \in LiveExecs \ {disp.exec} : LiveIn(registry', heap', e)
            /\ disp'.exec = disp.exec
            /\ disp'.promptID = registry.promptMessageID
            /\ disp.answer = TrimSpace(Updates[disp.update].text)
            /\ disp'.result.Status = StatusSuccess
            /\ disp'.result.Output =
                    OutputSelection(heap[disp.exec].Request.Question, disp.answer, <<>>,
                                    TRUE, "text")]_vars
    /\ [][(\E edited \in BOOLEAN : DispFinalize(TRUE, edited))
          /\ disp.update \in Texts =>
            /\ webhooks'[disp.exec] =
                    <<WebhookOf(disp.exec, StatusSuccess, disp.result.Output)>>
            /\ \A e \in Execs \ {disp.exec} : webhooks'[e] = webhooks[e]
            /\ disp.promptID > 0 => ~Shown(chat', disp.promptID)
            /\ out'.answers = <<>>
            /\ UNCHANGED <<registry, heap>>]_vars

\* the text " no " answered the prompt of one of two live executions: its callback
\* reports "no", its prompt message is deleted, the other execution is still live
C16_Witness ==
    \E e1, e2 \in Execs :
        /\ e1 # e2
        /\ ~Live(e1) /\ Live(e2)
        /\ heap[e2].MessageID > 0
        /\ webhooks[e2] = <<>>
        /\ Len(webhooks[e1]) = 1
        /\ webhooks[e1][1].result.input_mode = "text"
        /\ webhooks[e1][1].result.selected_option = <<"n", "o">>
        /\ webhooks[e1][1].result.custom
        /\ \E m \in PromptsOf(e1) : chat[m].state = "deleted"
        /\ registry.promptCorrelation = <<>>

(***************************************************************************)
(* The message id of an Execution.                                         *)
(***************************************************************************)
\* C17 as stated: Registry.SetMessage of a submission writes the message id of the
\* Execution that submission created, which had none, and of no other Execution.
C17_AsClaimed ==
    [][\A s \in 1..Len(subs) : SubmitAttach(s) =>
        \A e \in Execs : heap'[e].MessageID # heap[e].MessageID =>
            e = subs[s].exec /\ heap[e].MessageID = 0]_vars

(***************************************************************************)
(* The option limits: POST /execute with every spec block and every option *)
(* count, the other fields valid.                                          *)
(***************************************************************************)
\* what spec.options_min and spec.options_max can be: absent, or an integer
LimitValues == {JAbsent} \cup {JInt(i) : i \in -1..MaxLimit}

LimitsInit ==
    InitWith([options_min : LimitValues, options_max : LimitValues,
              count : 0..MaxLimit, submits : {1}])

\* the body submitted: the spec block and the number of options of inputs
LimitsRaw ==
    [BaseRaw EXCEPT !.spec.options_min = inputs.options_min,
                    !.spec.options_max = inputs.options_max,
                    !.arguments.options = Options([i \in 1..inputs.count |-> <<"A">>])]

LimitsNext == ExecuteRaw(LimitsRaw)

LimitsSpec == LimitsInit /\ [][LimitsNext]_vars

\* the request was served and accepted: SubmitExecution goes on to send its message
LimitsAccepted == Len(subs) = 1 /\ subs[1].pc = "send"
\* the request was served and rejected by extractOptions
LimitsRejected ==
    /\ Len(subs) = 1 /\ subs[1].pc = "done"
    /\ out.response.http = StatusBadRequest
    /\ out.response.result.msg = "options count must be %d-%d"

Present(v) == v.t = "number"
IntOf(v) == v.n \div 10

C19_AsClaimed ==
    LET lim == optionLimitsFromSpec(LimitsRaw.spec)
    IN  lim.max >= lim.min /\ lim.min >= 1

(***************************************************************************)
(* A failed send of the execution message.                                 *)
(***************************************************************************)
\* SubmitExecution returned for e on the failure of bot.SendMessage: e is in the
\* registry without a message id, and no submission is at work on it
SendFailed(e) ==
    /\ Live(e)
    /\ heap[e].MessageID = 0
    /\ \A s \in 1..Len(subs) : subs[s].exec # e

\* C20 as stated: an execution left in the registry by a failed send is removed
\* when its timeout elapses: a timeout timer is pending for its correlation id.
C20_AsClaimed ==
    \A e \in Execs : SendFailed(e) =>
        \E t \in 1..Len(timers) :
            timers[t].pc = "armed" /\ timers[t].correlationID = CorrelationIDOf(e)

(***************************************************************************)
(* The order of the steps of a resolution.                                 *)
(***************************************************************************)
\* in the calls of one step: deletions, then edits, then callback POSTs
Ordered(calls) ==
    \A i, j \in 1..Len(calls) : i < j =>
        /\ ~(calls[i].op = "post" /\ calls[j].op \in {"edit", "delete"})
        /\ ~(calls[i].op = "edit" /\ calls[j].op = "delete")

\* the step finalizes Execution e, whose resolution returned the prompt promptID
Finalizes(e, promptID) ==
    \/ /\ disp.pc = "finalize" /\ disp.exec = e /\ disp.promptID = promptID
       /\ disp.result # NoResult
       /\ \E deleted, edited \in BOOLEAN : DispFinalize(deleted, edited)
    \/ \E t \in 1..Len(timers) :
        /\ timers[t].pc = "finalize" /\ timers[t].exec = e
        /\ timers[t].promptID = promptID
        /\ \E deleted, edited \in BOOLEAN : TimerFinalize(t, deleted, edited)

\* C26: a resolution removes the execution from the registry first; the step that
\* finalizes it then deletes its prompt (if any), then attempts the edit of the
\* anchor message, then issues the callback POST; a POST or an anchor edit is only
\* ever made for an execution that is no longer in the registry.
C26_ResolutionOrder ==
    [][/\ Ordered(out'.calls)
       /\ \A e \in Execs :
            /\ webhooks'[e] # webhooks[e] =>
                    ~Live(e) /\ \E k \in 1..Len(out'.calls) :
                                    out'.calls[k] = [op |-> "post", id |-> e]
            /\ \A promptID \in 0..Len(chat) : Finalizes(e, promptID) =>
                /\ ~Live(e) /\ ~LiveIn(registry', heap', e)
                /\ promptID > 0 => out'.calls[1] = [op |-> "delete", id |-> promptID]
                /\ \E k \in 1..Len(out'.calls) :
                        out'.calls[k] = [op |-> "edit", id |-> heap[e].MessageID]
       /\ \A m \in 1..Len(chat) :
            chat'[m].state = "edited" /\ chat[m].state # "edited" =>
                \E e \in Execs, promptID \in 0..Len(chat) :
                    Finalizes(e, promptID) /\ heap[e].MessageID = m]_vars

\* a resolution that deleted a prompt, edited the anchor and posted the callback
C26_Witness ==
    /\ Len(out.calls) = 3
    /\ out.calls[1].op = "delete" /\ out.calls[2].op = "edit" /\ out.calls[3].op = "post"
    /\ out.calls[2].id \in 1..Len(chat)
    /\ chat[out.calls[1].id].state = "deleted"
    /\ chat[out.calls[2].id].state = "edited"
    /\ Len(webhooks[out.calls[3].id]) = 1

(***************************************************************************)
(* Failures of the chat calls of a resolution.                             *)
(***************************************************************************)
\* the step leaves Execution e removed and has issued its one callback POST, with
\* the status and the output of result
Outcome(e, result) ==
    /\ ~Live(e) /\ ~LiveIn(registry', heap', e)
    /\ webhooks' = [webhooks EXCEPT ![e] =
                        IF TrimSpace(heap[e].Request.Callback) = <<>> THEN @
                        ELSE <<WebhookOf(e, result.Status, result.Output)>>]

\* C27: when the deletion of the prompt or the edit of the anchor message fails
\* during a resolution, the execution stays removed and its callback POST is issued
\* exactly once, with the status and the result that were built before the chat
\* calls were made.
C27_ChatFailureKeepsOutcome ==
    [][\A deleted, edited \in BOOLEAN : ~(deleted /\ edited) =>
        /\ (disp.pc = "finalize" /\ disp.result # NoResult
                /\ DispFinalize(deleted, edited)) =>
            Outcome(disp.exec, disp.result)
        /\ \A t \in 1..Len(timers) : TimerFinalize(t, deleted, edited) =>
            Outcome(timers[t].exec, TimeoutResult)]_vars

\* an execution resolved by a click whose anchor edit failed: the anchor message
\* is still shown unedited, and the callback POST was issued
C27_Witness ==
    \E e \in Execs :
        /\ ~Live(e)
        /\ Len(webhooks[e]) = 1
        /\ webhooks[e][1].status = StatusSuccess
        /\ heap[e].MessageID \in 1..Len(chat)
        /\ chat[heap[e].MessageID].state = "shown"
        /\ out.calls # <<>>
        /\ out.calls[Len(out.calls)] = [op |-> "post", id |-> e]

(***************************************************************************)
(* A failed send of the custom-input prompt.                               *)
(***************************************************************************)
\* update u is a custom click of the authorized chat for Execution e
IsCustomClick(u, e) ==
    /\ Updates[u].kind = "callback"
    /\ Updates[u].hasMessage
    /\ allowedChat(Updates[u].chatID)
    /\ parseCallback(Updates[u].data).action = ActionCustom
    /\ parseCallback(Updates[u].data).payload = CorrelationIDOf(e)

\* what a failed prompt send leaves: e owns the prompt, no prompt message recorded
PromptFailed(e) ==
    disp.pc = "idle" /\ OwnsPrompt(e) /\ registry.promptMessageID = 0

\* C28: when the send of the prompt fails, the click is answered with the error note
\* of the execution's language and the registry, the executions and the callbacks
\* stay as they were; a later custom click on that execution, still in the registry,
\* is taken up again: StartCustomInput succeeds, the prompt is sent as a reply to
\* the anchor message and, the execution still owning the prompt, SetPromptMessage
\* records the message id of the new prompt.
C28_PromptSendFailure ==
    [][/\ \A deleted \in BOOLEAN :
            disp.pc = "custom_send" /\ CustomSend(deleted, FALSE) =>
                /\ out'.answers = <<Text(messageFor(heap[disp.exec].Request.Lang, cfg.Lang),
                                         "ErrorNote")>>
                /\ UNCHANGED <<registry, heap, webhooks>>
                /\ disp'.pc = "idle"
                /\ \A m \in 1..Len(chat') : m \in 1..Len(chat)
       /\ \A e \in Execs, u \in inputs.updates :
            PromptFailed(e) /\ IsCustomClick(u, e)
                /\ (\E delivered \in BOOLEAN : HandleUpdate(u, delivered)) =>
                disp'.pc = "custom_start" /\ disp'.exec = e
       /\ disp.pc = "custom_start" /\ Has(registry, CustomID) /\ CustomStart =>
            /\ disp'.pc = "custom_send"
            /\ OwnsPromptIn(registry', heap', registry.executions[CustomID])
            /\ registry'.promptMessageID = 0
       /\ \A deleted \in BOOLEAN :
            disp.pc = "custom_send" /\ CustomSend(deleted, TRUE) =>
                /\ Len(chat') = Len(chat) + 1
                /\ chat'[Len(chat')] = [kind |-> "prompt", state |-> "shown",
                                        replyTo |-> heap[disp.exec].MessageID,
                                        note |-> EmptyText]
                /\ disp'.pc = "custom_set" /\ disp'.promptID = Len(chat')
       /\ disp.pc = "custom_set" /\ registry.promptCorrelation = CustomID /\ CustomSet =>
            /\ registry'.promptMessageID = disp.promptID
            /\ registry'.promptCorrelation = CustomID]_vars

\* the send of the prompt has just failed: the click was answered with the error
\* note, the execution is in the registry, awaiting text, without a prompt message
\* and without a callback POST
C28_Witness ==
    \E e \in Execs :
        /\ PromptFailed(e)
        /\ out.answers = <<Text(messageFor(heap[e].Request.Lang, cfg.Lang), "ErrorNote")>>
        /\ out.calls = CallSend
        /\ webhooks[e] = <<>>

(***************************************************************************)
(* Option clicks that resolve nothing.                                     *)
(***************************************************************************)
\* the index of option click u is outside the options of Execution e
OutOfRange(u, e) ==
    OptionOf(u).index < 0 \/ OptionOf(u).index >= Len(heap[e].Request.Options)

\* C29: an option click whose correlation id names an execution of the registry and
\* whose index is negative or not below the number of its options is answered with
\* the InvalidAction text of the execution's language; an option click whose
\* correlation id names no execution of the registry is answered AlreadyResolved;
\* in both cases the registry, the executions, the prompt singleton, the chat and
\* the callbacks stay as they were and the dispatcher is idle again.
C29_BadOptionClickIgnored ==
    [][disp.pc = "idle" =>
        \A u \in inputs.updates :
            IsOptionClick(u) /\ (\E delivered \in BOOLEAN : HandleUpdate(u, delivered)) =>
                LET e == Get(registry, OptionOf(u).correlationID)
                IN  /\ e = 0 =>
                        /\ out' = Answered(<<Text(messageFor(<<>>, cfg.Lang),
                                                  "AlreadyResolved")>>, EmptyText)
                        /\ UNCHANGED <<registry, heap, chat, webhooks, timers, subs>>
                        /\ disp' = IdleDisp
                    /\ e # 0 /\ OutOfRange(u, e) =>
                        /\ out' = Answered(<<Text(messageFor(heap[e].Request.Lang, cfg.Lang),
                                                  "InvalidAction")>>, EmptyText)
                        /\ UNCHANGED <<registry, heap, chat, webhooks, timers, subs>>
                        /\ disp' = IdleDisp]_vars

\* a click with a negative index on an execution of the registry that owns the
\* prompt was just answered InvalidAction in the execution's language, which is not
\* the language of the process
C29_Witness ==
    \E e \in AwaitingLive, u \in inputs.updates :
        /\ IsOptionClick(u)
        /\ OptionOf(u).correlationID = CorrelationIDOf(e)
        /\ OptionOf(u).index < 0
        /\ messageFor(heap[e].Request.Lang, cfg.Lang) # messageFor(<<>>, cfg.Lang)
        /\ registry.promptMessageID > 0
        /\ out = Answered(<<Text(messageFor(heap[e].Request.Lang, cfg.Lang),
                                 "InvalidAction")>>, EmptyText)

(***************************************************************************)
(* Custom clicks that are rejected.                                        *)
(***************************************************************************)
\* update u is a custom click of the authorized chat
CustomClick(u) ==
    /\ Updates[u].kind = "callback"
    /\ Updates[u].hasMessage
    /\ allowedChat(Updates[u].chatID)
    /\ parseCallback(Updates[u].data).action = ActionCustom

\* C30: a custom click whose correlation id names no execution of the registry, or
\* names one with allow_custom false, is answered (AlreadyResolved, InvalidAction)
\* and changes nothing: no execution gains awaiting_text, the prompt singleton keeps
\* its owner and its prompt message, and no chat message is sent or deleted; the same
\* holds when the execution has left the registry by the time StartCustomInput runs.
C30_CustomClickRejected ==
    [][/\ disp.pc = "idle" =>
            \A u \in inputs.updates :
                CustomClick(u) /\ (\E delivered \in BOOLEAN : HandleUpdate(u, delivered)) =>
                    LET e == Get(registry, parseCallback(Updates[u].data).payload)
                    IN  (e = 0 \/ ~heap[e].Request.AllowCustom) =>
                            /\ UNCHANGED <<registry, heap, chat, webhooks, timers, subs>>
                            /\ disp' = IdleDisp
                            /\ out' = Answered(
                                    <<IF e = 0
                                      THEN Text(messageFor(<<>>, cfg.Lang), "AlreadyResolved")
                                      ELSE Text(messageFor(heap[e].Request.Lang, cfg.Lang),
                                                "InvalidAction")>>,
                                    EmptyText)
       /\ disp.pc = "custom_start" /\ ~Has(registry, CustomID) /\ CustomStart =>
            /\ UNCHANGED <<registry, heap, chat, webhooks, timers, subs>>
            /\ disp' = IdleDisp
            /\ out'.calls = <<>>
            /\ Len(out'.answers) = 1 /\ out'.answers[1].key = "AlreadyResolved"]_vars

\* a custom click on an execution with allow_custom false was just rejected while
\* another execution owns the prompt, its prompt message in the chat
C30_Witness ==
    \E e \in LiveExecs, o \in AwaitingLive :
        /\ ~heap[e].Request.AllowCustom
        /\ e # o
        /\ registry.promptMessageID > 0
        /\ Shown(chat, registry.promptMessageID)
        /\ \E u \in inputs.updates : IsCustomClick(u, e)
        /\ out = Answered(<<Text(messageFor(heap[e].Request.Lang, cfg.Lang),
                                 "InvalidAction")>>, EmptyText)

(***************************************************************************)
(* main, the health endpoints of the HTTP server and the webhook source:   *)
(* runs without /execute requests, the updates arriving on the webhook.    *)
(***************************************************************************)
StatusOK == 200
StatusUnauthorized == 401
StatusServiceUnavailable == 503
\* make(chan telego.Update, 128)
QueueCapacity == 128

\* what the handler of route wrote: a status code and a plain body
Plain(route, code, body) ==
    [NoOut EXCEPT !.route = route,
                  !.response = [http |-> code, status |-> "",
                                result |-> Err(body), correlation_id |-> <<>>]]

\* the values of the X-Telegram-Bot-Api-Secret-Token header tried: the secret, none,
\* a prefix of the secret, the secret in another case, the secret with a suffix
SecretsTried == {Secret, <<>>, <<"s">>, <<"S", "1">>, <<"s", "1", " ">>}

\* the requests /webhook is sent; body: the update (an index of Updates) that the
\* JSON body decodes to, 0 for a body that does not decode
WebhookRequests ==
    [method : {"POST", "GET"}, secret : SecretsTried, body : inputs.updates \cup {0}]

\* the runs explored: the one update that arrives, again and again
ServiceScenarios == {
    [raws |-> {}, updates |-> {16}, deliveries |-> {TRUE}, submits |-> 0, prompts |-> 0],
    [raws |-> {}, updates |-> {30}, deliveries |-> {TRUE}, submits |-> 0, prompts |-> 0] }

WebhookServe_AnySecret(w, req) ==
    IF w.closed THEN [w |-> w, code |-> StatusServiceUnavailable]
    ELSE IF req.method # "POST" THEN [w |-> w, code |-> StatusMethodNotAllowed]
    ELSE IF req.secret # <<>> /\ ToLower(req.secret) # ToLower(w.secret)
    THEN [w |-> w, code |-> StatusUnauthorized]
    ELSE IF req.body = 0 THEN [w |-> w, code |-> StatusBadRequest]
    ELSE IF Len(w.updates) < QueueCapacity
    THEN [w |-> [w EXCEPT !.updates = Append(@, req.body)], code |-> StatusOK]
    ELSE [w |-> w, code |-> StatusServiceUnavailable]

WebhookServe_Unbounded(w, req) ==
    IF w.closed THEN [w |-> w, code |-> StatusServiceUnavailable]
    ELSE IF req.method # "POST" THEN [w |-> w, code |-> StatusMethodNotAllowed]
    ELSE IF req.secret # w.secret THEN [w |-> w, code |-> StatusUnauthorized]
    ELSE IF req.body = 0 THEN [w |-> w, code |-> StatusBadRequest]
    ELSE [w |-> [w EXCEPT !.updates = Append(@, req.body)], code |-> StatusOK]

\* the handler of Webhook.Handler on the source w: the source after it and the
\* status code written; the send on the channel does not block (select, default)
WebhookServe(w, req) ==
    IF w.closed THEN [w |-> w, code |-> StatusServiceUnavailable]
    ELSE IF req.method # "POST" THEN [w |-> w, code |-> StatusMethodNotAllowed]
    ELSE IF req.secret # w.secret THEN [w |-> w, code |-> StatusUnauthorized]
    ELSE IF req.body = 0 THEN [w |-> w, code |-> StatusBadRequest]
    ELSE IF Len(w.updates) < QueueCapacity
    THEN [w |-> [w EXCEPT !.updates = Append(@, req.body)], code |-> StatusOK]
    ELSE [w |-> w, code |-> StatusServiceUnavailable]

\* a request to /webhook is served
WebhookHandler(req) ==
    /\ source' = WebhookServe(source, req).w
    /\ out' = Plain("/webhook", WebhookServe(source, req).code, "")
    /\ UNCHANGED <<main, inputs, cfg, registry, heap, chat, webhooks, subs, timers, disp>>

\* a request to /healthz is served
Healthz ==
    /\ out' = Plain("/healthz", StatusOK, "ok")
    /\ UNCHANGED <<main, source, inputs, cfg, registry, heap, chat, webhooks, subs,
                   timers, disp>>

\* a request to /readyz is served
Readyz ==
    /\ out' = IF ~main.ready THEN Plain("/readyz", StatusServiceUnavailable, "not ready")
              ELSE Plain("/readyz", StatusOK, "ok")
    /\ UNCHANGED <<main, source, inputs, cfg, registry, heap, chat, webhooks, subs,
                   timers, disp>>

\* main takes a step that touches neither the registry nor the chat
MainStep ==
    /\ out' = NoOut
    /\ UNCHANGED <<inputs, cfg, registry, heap, chat, webhooks, subs, timers, disp>>

\* service.Start: Webhook.Start registers the webhook (ok: bot.SetWebhook succeeds),
\* then Handler.Run is started; on an error main exits
MainStart(ok) ==
    /\ main.pc = "start"
    /\ IF ok
       THEN /\ main' = [main EXCEPT !.pc = "set_ready", !.running = TRUE]
            /\ source' = [source EXCEPT !.registered = TRUE]
       ELSE /\ main' = [main EXCEPT !.pc = "failed"]
            /\ source' = source
    /\ MainStep

\* server.SetReady(true)
MainSetReady ==
    /\ main.pc = "set_ready"
    /\ main' = [main EXCEPT !.pc = "listen", !.ready = TRUE]
    /\ source' = source
    /\ MainStep

\* go server.ListenAndServe()
MainListen ==
    /\ main.pc = "listen"
    /\ main' = [main EXCEPT !.pc = "wait", !.listening = TRUE]
    /\ source' = source
    /\ MainStep

\* the select of main: a signal arrives, or (failed) ListenAndServe returns
MainWait(failed) ==
    /\ main.pc = "wait"
    /\ main' = [main EXCEPT !.pc = "cancel", !.listening = ~failed]
    /\ source' = source
    /\ MainStep

\* cancel() of the root context
MainCancel ==
    /\ main.pc = "cancel"
    /\ main' = [main EXCEPT !.pc = "set_unready", !.cancelled = TRUE]
    /\ source' = source
    /\ MainStep

\* server.SetReady(false)
MainSetUnready ==
    /\ main.pc = "set_unready"
    /\ main' = [main EXCEPT !.pc = "shutdown", !.ready = FALSE]
    /\ source' = source
    /\ MainStep

\* server.Shutdown
MainShutdown ==
    /\ main.pc = "shutdown"
    /\ main' = [main EXCEPT !.pc = "stop", !.listening = FALSE]
    /\ source' = source
    /\ MainStep

\* service.Stop: Webhook.Stop sets closed, then asks the chat service to delete the
\* webhook (ok: bot.DeleteWebhook succeeds); main returns
MainStop(ok) ==
    /\ main.pc = "stop"
    /\ main' = [main EXCEPT !.pc = "exit"]
    /\ source' = [source EXCEPT !.closed = TRUE,
                                !.registered = IF ok THEN FALSE ELSE @]
    /\ MainStep

\* Handler.Run: an update is received from the channel and handled
Run(delivered) ==
    /\ main.running
    /\ source.updates # <<>>
    /\ HandleUpdateOf(Head(source.updates), delivered)
    /\ source' = [source EXCEPT !.updates = Tail(@)]
    /\ main' = main

\* Handler.Run: <-ctx.Done()
RunReturn ==
    /\ main.running
    /\ main.cancelled
    /\ disp.pc = "idle"
    /\ main' = [main EXCEPT !.running = FALSE]
    /\ source' = source
    /\ MainStep

ServiceInit == InitWith(ServiceScenarios) /\ cfg.transcriber

ServiceNext ==
    \/ \E ok \in BOOLEAN : MainStart(ok)
    \/ MainSetReady
    \/ MainListen
    \/ \E failed \in BOOLEAN : MainWait(failed)
    \/ MainCancel
    \/ MainSetUnready
    \/ MainShutdown
    \/ \E ok \in BOOLEAN : MainStop(ok)
    \/ \E req \in WebhookRequests : WebhookHandler(req)
    \/ Healthz
    \/ Readyz
    \/ \E delivered \in inputs.deliveries : Run(delivered)
    \/ RunReturn

ServiceSpec == ServiceInit /\ [][ServiceNext]_vars

\* the request passes every check of the handler before the send on the channel
ValidWebhookRequest(req) ==
    /\ ~source.closed
    /\ req.method = "POST"
    /\ req.secret = source.secret
    /\ req.body # 0

\* C21: the channel of the webhook source never holds more than 128 updates; a
\* request that passes the checks while it holds 128 is answered 503 and leaves it
\* as it is; a request is answered 200 only when its update was appended to it.
C21_QueueBounded ==
    [][/\ Len(source.updates) <= QueueCapacity
       /\ Len(source'.updates) <= QueueCapacity
       /\ \A req \in WebhookRequests : WebhookHandler(req) =>
            /\ ValidWebhookRequest(req) /\ Len(source.updates) = QueueCapacity =>
                    /\ out'.response.http = StatusServiceUnavailable
                    /\ source' = source
            /\ out'.response.http = StatusOK =>
                    /\ ValidWebhookRequest(req)
                    /\ source'.updates = Append(source.updates, req.body)]_vars

\* the channel holds 128 updates and a request that passed the checks was just
\* answered 503
C21_Witness ==
    /\ Len(source.updates) = QueueCapacity
    /\ ~source.closed
    /\ out = Plain("/webhook", StatusServiceUnavailable, "")

(***************************************************************************)
(* The checks of the webhook handler.                                      *)
(***************************************************************************)
\* the handler appends an update only for a POST that carries the shared secret
EnqueuesOnlyAuthorized(req) ==
    source'.updates # source.updates =>
        /\ req.method = "POST"
        /\ req.secret = source.secret
        /\ source'.updates = Append(source.updates, req.body)

\* C22 as stated: before the start, while running and after the stop alike, a
\* request that is not a POST is answered 405 and a POST with another secret is
\* answered 401, the channel left as it is, and an update is appended only for a POST
\* with the shared secret.
C22_AsClaimed ==
    [][\A req \in WebhookRequests : WebhookHandler(req) =>
        /\ EnqueuesOnlyAuthorized(req)
        /\ req.method # "POST" =>
                out'.response.http = StatusMethodNotAllowed /\ source' = source
        /\ req.method = "POST" /\ req.secret # source.secret =>
                out'.response.http = StatusUnauthorized /\ source' = source]_vars

\* C22: an update is appended to the channel only for a POST whose secret header
\* equals the shared secret, and only while the source is not stopped; until the
\* stop a request that is not a POST is answered 405 and a POST with another secret
\* 401; after the stop every request is answered 503; in all these cases the
\* channel is left as it is.
C22_OnlyAuthorizedEnqueued ==
    [][\A req \in WebhookRequests : WebhookHandler(req) =>
        /\ EnqueuesOnlyAuthorized(req)
        /\ source'.updates # source.updates => ~source.closed
        /\ ~source.closed /\ req.method # "POST" =>
                out'.response.http = StatusMethodNotAllowed /\ source' = source
        /\ ~source.closed /\ req.method = "POST" /\ req.secret # source.secret =>
                out'.response.http = StatusUnauthorized /\ source' = source
        /\ source.closed =>
                out'.response.http = StatusServiceUnavailable /\ source' = source]_vars

\* before the start of the source, with updates in the channel, a request was just
\* answered 401
C22_Witness ==
    /\ main.pc = "start"
    /\ ~source.registered
    /\ source.updates # <<>>
    /\ out = Plain("/webhook", StatusUnauthorized, "")

(***************************************************************************)
(* Readiness and liveness.                                                 *)
(***************************************************************************)
\* service.Start has returned without an error
Started == main.pc \notin {"start", "failed"}

\* C23 as stated: /readyz answers 200 only when the update source has been started
\* and the root context has not been cancelled; /healthz answers 200 always.
C23_AsClaimed ==
    [][/\ Readyz /\ out'.response.http = StatusOK => Started /\ ~main.cancelled
       /\ Healthz => out'.response.http = StatusOK]_vars

(***************************************************************************)
(* The markup writers: shared/markup.go and the option list of the         *)
(* rendered execution message (service.go, WriteOptions).                  *)
(***************************************************************************)
\* the grave accent (U+0060), written by name
Backtick == "grave"

MarkdownV2Runes == {"_", "*", "[", "]", "(", ")", "~", Backtick, ">", "#", "+", "-",
                    "=", "|", "{", "}", ".", "!", "\\"}
MarkdownV2CodeRunes == {"\\", Backtick}

\* escapeWithSet(value, escapedRunes): a backslash before each rune of the set
RECURSIVE escapeWithSet(_, _)
escapeWithSet(value, escapedRunes) ==
    IF value = <<>> THEN value
    ELSE (IF Head(value) \in escapedRunes THEN <<"\\", Head(value)>>
                                          ELSE <<Head(value)>>)
         \o escapeWithSet(Tail(value), escapedRunes)

EscapeMarkdownV2_NoBackslash(value) ==
    escapeWithSet(value, MarkdownV2Runes \ {"\\"})

EscapeMarkdownV2(value) == escapeWithSet(value, MarkdownV2Runes)

EscapeMarkdownV2Code(value) == escapeWithSet(value, MarkdownV2CodeRunes)

\* the pairs of the strings.NewReplacer of EscapeHTML
HTMLEntities == << <<"&", <<"&", "a", "m", "p", ";">> >>,
                   <<"<", <<"&", "l", "t", ";">> >>,
                   <<">", <<"&", "g", "t", ";">> >>,
                   <<"\"", <<"&", "q", "u", "o", "t", ";">> >>,
                   <<"'", <<"&", "#", "3", "9", ";">> >> >>

\* Replacer.Replace: one pass over the input, each character replaced by the
\* new string of the first pair whose old string it is, or kept
RECURSIVE EscapeHTML(_)
EscapeHTML(value) ==
    IF value = <<>> THEN value
    ELSE LET hits == {i \in 1..Len(HTMLEntities) : HTMLEntities[i][1] = Head(value)}
         IN  (IF hits = {} THEN <<Head(value)>>
              ELSE HTMLEntities[CHOOSE i \in hits : \A j \in hits : i <= j][2])
             \o EscapeHTML(Tail(value))

\* the per-option write of markdownExecutionWriter.WriteOptions: "%d\\) %s\n"
RECURSIVE MarkdownOptionLines(_, _)
MarkdownOptionLines(options, idx) ==
    IF idx >= Len(options) THEN <<>>
    ELSE Itoa(idx + 1) \o <<"\\", ")", " ">> \o EscapeMarkdownV2(options[idx + 1])
         \o <<"\n">> \o MarkdownOptionLines(options, idx + 1)

\* the per-option write of htmlExecutionWriter.WriteOptions: "%d) %s<br>"
RECURSIVE HTMLOptionLines(_, _)
HTMLOptionLines(options, idx) ==
    IF idx >= Len(options) THEN <<>>
    ELSE Itoa(idx + 1) \o <<")", " ">> \o EscapeHTML(options[idx + 1])
         \o <<"<", "b", "r", ">">> \o HTMLOptionLines(options, idx + 1)

\* markdownExecutionWriter.WriteOptions and htmlExecutionWriter.WriteOptions;
\* mode is the parse mode of the message
WriteOptions(mode, label, options) ==
    IF mode = "HTML"
    THEN <<"<", "b", ">">> \o EscapeHTML(label) \o <<":", "<", "/", "b", ">", "<", "b", "r", ">">>
         \o HTMLOptionLines(options, 0) \o <<"<", "b", "r", ">">>
    ELSE <<"*">> \o EscapeMarkdownV2(label) \o <<":", "*", "\n">>
         \o MarkdownOptionLines(options, 0) \o <<"\n">>

\* executionLabels.OptionsLabel: the label text of the messages in use
OptionsLabel == <<"O", "p", "t", "i", "o", "n", "s">>

\* the characters option texts are made of: every character either writer
\* escapes, the characters of the HTML entities, a letter and the newline
EscapeAlphabet ==
    MarkdownV2Runes \cup {"&", "<", "\"", "'", ";", "a", "l", "t", "\n"}

\* every option text of at most MaxEscapeLen characters, and texts that are
\* themselves escaped forms
OptionTexts ==
    UNION {[1..n -> EscapeAlphabet] : n \in 0..MaxEscapeLen}
    \cup {<<"&", "l", "t", ";">>, <<"&", "a", "m", "p", ";", "<">>,
          <<"&", "#", "3", "9", ";">>, <<"\\", "\\", "_", "a">>,
          <<"<", "b", "r", ">">>, <<"*", "a", "*", "\n">>}

RenderInit ==
    InitWith([option : OptionTexts, markup : {MarkupMarkdown, MarkupHTML}])

\* the options of the request rendered: the text tried and a plain one
RenderedOptions == <<inputs.option, <<"B">> >>

\* the option list is written in the parse mode of inputs.markup
Render ==
    /\ out = NoOut
    /\ out' = Called(NoOut, <<[kind |-> "write",
                              mode |-> parseMode(inputs.markup),
                              text |-> WriteOptions(parseMode(inputs.markup),
                                                    OptionsLabel, RenderedOptions)]>>)
    /\ UNCHANGED <<main, source, inputs, cfg, registry, heap, chat, webhooks,
                   subs, timers, disp>>

RenderNext == Render

RenderSpec == RenderInit /\ [][RenderNext]_vars

\* Decoding, by the rules of the chat platform's MarkdownV2 mode: a backslash
\* makes the character after it literal; any other reserved character is
\* markup, shown here as Markup.
Markup == "<markup>"

RECURSIVE DecodeMarkdownV2(_)
DecodeMarkdownV2(text) ==
    IF text = <<>> THEN <<>>
    ELSE IF Head(text) = "\\" /\ Len(text) >= 2
    THEN <<text[2]>> \o DecodeMarkdownV2(SubSeq(text, 3, Len(text)))
    ELSE IF Head(text) \in MarkdownV2Runes
    THEN <<Markup>> \o DecodeMarkdownV2(Tail(text))
    ELSE <<Head(text)>> \o DecodeMarkdownV2(Tail(text))

HasPrefix(s, prefix) ==
    Len(s) >= Len(prefix) /\ SubSeq(s, 1, Len(prefix)) = prefix

\* Decoding, by the rules of the chat platform's HTML mode: an entity stands
\* for its character, a tag (from "<" to the next ">") is markup.
RECURSIVE DecodeHTML(_)
DecodeHTML(text) ==
    IF text = <<>> THEN <<>>
    ELSE LET ents == {i \in 1..Len(HTMLEntities) : HasPrefix(text, HTMLEntities[i][2])}
             close == {i \in 1..Len(text) : text[i] = ">"}
         IN  IF ents # {}
             THEN LET i == CHOOSE i \in ents : TRUE
                  IN  <<HTMLEntities[i][1]>>
                      \o DecodeHTML(SubSeq(text, Len(HTMLEntities[i][2]) + 1, Len(text)))
             ELSE IF Head(text) = "<" /\ close # {}
             THEN <<Markup>>
                  \o DecodeHTML(SubSeq(text, (CHOOSE i \in close : \A j \in close : i <= j) + 1,
                                       Len(text)))
             ELSE <<Head(text)>> \o DecodeHTML(Tail(text))

Decode(mode, text) ==
    IF mode = "HTML" THEN DecodeHTML(text) ELSE DecodeMarkdownV2(text)

Escape(mode, value) ==
    IF mode = "HTML" THEN EscapeHTML(value) ELSE EscapeMarkdownV2(value)

\* what the reader of the option list sees: the label between markup, then
\* each option after its number; line ends are "\n" in MarkdownV2 and the
\* markup of <br> in HTML
DecodedOptions(mode, label, options) ==
    LET br == IF mode = "HTML" THEN <<Markup>> ELSE <<"\n">>
    IN  <<Markup>> \o label \o <<":", Markup>> \o br
        \o <<"1", ")", " ">> \o options[1] \o br
        \o <<"2", ")", " ">> \o options[2] \o br \o br

\* C24: in either dialect, escaping an option text and decoding the result
\* gives the text back, escaping adds one level of escaping only (each
\* character of the text yields itself or its one escaped form), and the
\* option list rendered around the text decodes to the label and the texts.
C24_EscapeRoundTrip ==
    out.calls # <<>> =>
        LET mode == out.calls[1].mode
            s == inputs.option
        IN  /\ Decode(mode, Escape(mode, s)) = s
            /\ Decode(mode, out.calls[1].text)
                 = DecodedOptions(mode, OptionsLabel, RenderedOptions)

\* an option text that is itself an escaped form was rendered in each dialect
C24_Witness ==
    /\ out.calls # <<>>
    /\ out.calls[1].mode = "HTML"
    /\ inputs.option = <<"&", "l", "t", ";">>
    /\ Escape("HTML", inputs.option) = <<"&", "a", "m", "p", ";", "l", "t", ";">>

(***************************************************************************)
(* The voice normalizer: normalizeVoiceAudio, normalizeFilename and        *)
(* isOpenAICompatibleAudio.  Audio content is a sequence of bytes.         *)
(***************************************************************************)
\* the cases of the switch of isOpenAICompatibleAudio
CompatibleMimes == {<<"a", "u", "d", "i", "o", "/", "m", "p", "e", "g">>,
    <<"a", "u", "d", "i", "o", "/", "m", "p", "3">>,
    <<"a", "u", "d", "i", "o", "/", "m", "p", "4">>,
    <<"a", "u", "d", "i", "o", "/", "m", "p", "4", "a", "-", "l", "a", "t", "m">>,
    <<"a", "u", "d", "i", "o", "/", "x", "-", "m", "4", "a">>,
    <<"a", "u", "d", "i", "o", "/", "m", "4", "a">>,
    <<"a", "u", "d", "i", "o", "/", "w", "a", "v">>,
    <<"a", "u", "d", "i", "o", "/", "x", "-", "w", "a", "v">>,
    <<"a", "u", "d", "i", "o", "/", "w", "e", "b", "m">>}
\* the suffixes isOpenAICompatibleAudio tests the file name for
CompatibleSuffixes == {<<".", "m", "p", "3">>,
    <<".", "m", "p", "e", "g">>,
    <<".", "m", "p", "4">>,
    <<".", "m", "4", "a">>,
    <<".", "w", "a", "v">>,
    <<".", "w", "e", "b", "m">>}

HasSuffix(s, suffix) ==
    Len(s) >= Len(suffix) /\ SubSeq(s, Len(s) - Len(suffix) + 1, Len(s)) = suffix

isOpenAICompatibleAudio_MimeOnly(mimeType, filename) ==
    mimeType # <<>> /\ ToLower(TrimSpace(mimeType)) \in CompatibleMimes

isOpenAICompatibleAudio(mimeType, filename) ==
    IF mimeType # <<>> /\ ToLower(TrimSpace(mimeType)) \in CompatibleMimes THEN TRUE
    ELSE LET lowerName == ToLower(TrimSpace(filename))
         IN  IF lowerName = <<>> THEN FALSE
             ELSE \E suffix \in CompatibleSuffixes : HasSuffix(lowerName, suffix)

\* filepath.Ext(path): the suffix from the last dot of the last element of path
Ext(path) ==
    LET dots == {i \in 1..Len(path) :
                    /\ path[i] = "."
                    /\ \A j \in i + 1..Len(path) : path[j] \notin {".", "/"}}
    IN  IF dots = {} THEN <<>>
        ELSE SubSeq(path, CHOOSE i \in dots : TRUE, Len(path))

MP3Suffix == <<".", "m", "p", "3">>

normalizeFilename(filename) ==
    IF TrimSpace(filename) = <<>> THEN <<"v", "o", "i", "c", "e", ".", "m", "p", "3">>
    ELSE IF HasSuffix(ToLower(filename), MP3Suffix) THEN filename
    ELSE IF Ext(filename) # <<>>
    THEN SubSeq(filename, 1, Len(filename) - Len(Ext(filename))) \o MP3Suffix
    ELSE filename \o MP3Suffix

\* what cmd.Run of ffmpeg can do: fail with or without text on stderr, or
\* exit with status 0 having written stdout (nothing, or audio)
FfmpegRuns == {[failed |-> TRUE, stderr |-> <<"e">>, stdout |-> <<>>],
               [failed |-> TRUE, stderr |-> <<" ">>, stdout |-> <<>>],
               [failed |-> FALSE, stderr |-> <<>>, stdout |-> <<>>],
               [failed |-> FALSE, stderr |-> <<"w">>, stdout |-> <<7, 7>>]}

Normalized(content, mimeType, filename, err, ffmpeg) ==
    [content |-> content, mimeType |-> mimeType, filename |-> filename,
     err |-> err, ffmpeg |-> ffmpeg]

\* normalizeVoiceAudio(ctx, content, mimeType, filename); run: what ffmpeg does
\* if it is started.  ffmpeg: whether the subprocess was started.
normalizeVoiceAudio(content, mimeType, filename, run) ==
    IF Len(content) = 0
    THEN Normalized(<<>>, <<>>, <<>>, "empty audio content", FALSE)
    ELSE IF isOpenAICompatibleAudio(ToLower(TrimSpace(mimeType)), filename)
    THEN Normalized(content, mimeType, filename, "", FALSE)
    ELSE IF run.failed
    THEN Normalized(<<>>, <<>>, <<>>,
                    IF TrimSpace(run.stderr) # <<>> THEN "ffmpeg failed: %w: %s"
                                                    ELSE "ffmpeg failed: %w", TRUE)
    ELSE IF Len(run.stdout) = 0
    THEN Normalized(<<>>, <<>>, <<>>, "empty transcoded audio", TRUE)
    ELSE Normalized(run.stdout, <<"a", "u", "d", "i", "o", "/", "m", "p", "e", "g">>, normalizeFilename(filename), "", TRUE)

\* the audio contents, mime types and file names tried
AudioContents == {<<>>, <<0>>, <<255, 1>>}
AudioMimes ==
    CompatibleMimes
    \cup {<<>>, <<" ", "A", "u", "d", "i", "o", "/", "M", "P", "E", "G", " ">>, <<"a", "u", "d", "i", "o", "/", "o", "g", "g">>, <<"a", "u", "d", "i", "o", "/", "m", "p", "e", "g", ";", " ", "x">>}
AudioFilenames ==
    {<<>>, <<"v", ".", "o", "g", "a">>, <<"v", ".", "m", "p", "3">>, <<"V", ".", "M", "P", "3", " ">>, <<"a", "/", "b", ".", "w", "a", "v">>, <<"v", ".", "w", "e", "b", "m">>, <<"v", ".", "m", "4", "a">>, <<"v", ".", "m", "p", "4">>, <<"v", ".", "m", "p", "e", "g">>, <<"m", "p", "3">>, <<"a", ".", "b", "/", "v">>, <<" ">>}

VoiceInit ==
    InitWith([content : AudioContents, mimeType : AudioMimes, filename : AudioFilenames])

\* one call of normalizeVoiceAudio on the input
NormalizeVoice(run) ==
    /\ out.route = ""
    /\ out' = [NoOut EXCEPT !.route = "normalizeVoiceAudio",
                            !.response = normalizeVoiceAudio(inputs.content, inputs.mimeType,
                                                             inputs.filename, run)]
    /\ UNCHANGED <<main, source, inputs, cfg, registry, heap, chat, webhooks,
                   subs, timers, disp>>

VoiceNext == \E run \in FfmpegRuns : NormalizeVoice(run)

VoiceSpec == VoiceInit /\ [][VoiceNext]_vars

\* the input is of an accepted type as the contract words it: its mime type is
\* one of the accepted family, or its file name ends in an accepted extension
AcceptedType ==
    \/ inputs.mimeType \in CompatibleMimes
    \/ \E suffix \in CompatibleSuffixes : HasSuffix(inputs.filename, suffix)

NormalizeReturned == out.route = "normalizeVoiceAudio"

ReturnedUnchanged ==
    out.response = Normalized(inputs.content, inputs.mimeType, inputs.filename, "", FALSE)

\* C25: for an input of an accepted type, the normalizer never starts the
\* transcoding tool; it returns the bytes, the mime type and the file name
\* unchanged when the content is not empty, and the error "empty audio content"
\* with no payload when the content is empty.
C25_AcceptedReturnedUnchanged ==
    NormalizeReturned /\ AcceptedType =>
        /\ ~out.response.ffmpeg
        /\ inputs.content # <<>> => ReturnedUnchanged
        /\ inputs.content = <<>> =>
            out.response = Normalized(<<>>, <<>>, <<>>, "empty audio content", FALSE)

\* audio accepted by its file name alone was returned as it came
C25_Witness ==
    /\ NormalizeReturned
    /\ inputs.content = <<255, 1>>
    /\ inputs.mimeType = <<"a", "u", "d", "i", "o", "/", "o", "g", "g">>
    /\ inputs.filename = <<"a", "/", "b", ".", "w", "a", "v">>
    /\ ReturnedUnchanged

\* C25 as stated: every input of an accepted type, the empty content
\* included, comes back unchanged and without transcoding
C25_AsClaimed ==
    NormalizeReturned /\ AcceptedType => ReturnedUnchanged

(***************************************************************************)
(* The prompt singleton under ClearPrompt and SetPromptMessage.            *)
(***************************************************************************)
\* update u is a click on the cancel button of a prompt, from the chat served
CancelClick(u) ==
    /\ Updates[u].kind = "callback"
    /\ Updates[u].hasMessage
    /\ allowedChat(Updates[u].chatID)
    /\ parseCallback(Updates[u].data).action = ActionCancelCustom

CancelID(u) == parseCallback(Updates[u].data).payload

\* h2 is h but for the AwaitingText of the Execution correlation id names in r
OnlyAwaitingCleared(r, h, h2, id) ==
    /\ DOMAIN h2 = DOMAIN h
    /\ \A e \in DOMAIN h :
        IF Has(r, id) /\ r.executions[id] = e
        THEN h2[e] = [h[e] EXCEPT !.AwaitingText = FALSE]
        ELSE h2[e] = h[e]

\* C31: a cancel click (ClearPrompt) or the SetPromptMessage of startCustomPrompt
\* made with a correlation id that does not own the prompt singleton leaves the
\* registry and every execution as they were, and ClearPrompt returns 0 (nothing
\* is deleted from the chat); ClearPrompt made with the owner's id clears that
\* execution's awaiting_text, empties the singleton, returns the recorded prompt
\* message id (the message the handler then deletes; 0, and no deletion, if none
\* was recorded) and keeps every execution in the registry; SetPromptMessage made
\* with the owner's id records the message id and changes nothing else.
C31_PromptOwnerOnly ==
    [][/\ \A u \in inputs.updates :
            CancelClick(u) /\ (\E delivered \in BOOLEAN : HandleUpdate(u, delivered)) =>
                IF registry.promptCorrelation # CancelID(u)
                THEN /\ registry' = registry
                     /\ heap' = heap
                     /\ chat' = chat
                     /\ out'.calls = <<>>
                ELSE /\ registry' = [registry EXCEPT !.promptCorrelation = <<>>,
                                                     !.promptMessageID = 0]
                     /\ OnlyAwaitingCleared(registry, heap, heap', CancelID(u))
                     /\ out'.calls = CallDelete(registry.promptMessageID)
       /\ CustomSet =>
            /\ heap' = heap
            /\ IF registry.promptCorrelation # CustomID
               THEN registry' = registry
               ELSE registry' = [registry EXCEPT !.promptMessageID = disp.promptID]]_vars

\* the owner's prompt was cancelled: the singleton is empty, the prompt message of
\* the owner was asked to be deleted, and the owner is in the registry, no longer
\* awaiting text
C31_Witness ==
    /\ disp.pc = "idle"
    /\ out.answers = <<EmptyText>>
    /\ Len(out.calls) = 1
    /\ out.calls[1].op = "delete"
    /\ out.calls[1].id \in 1..Len(chat)
    /\ chat[out.calls[1].id].kind = "prompt"
    /\ registry.promptCorrelation = <<>>
    /\ registry.promptMessageID = 0
    /\ \E e \in LiveExecs : chat[out.calls[1].id].replyTo = heap[e].MessageID
                            /\ ~heap[e].AwaitingText
                            /\ heap[e].MessageID > 0

\* a cancel click with an id that is not the owner's arrived while another
\* execution owned the prompt, and changed nothing
C31_NonOwnerSeen ==
    /\ disp.pc = "idle"
    /\ out.answers = <<EmptyText>>
    /\ out.calls = <<>>
    /\ registry.promptCorrelation # <<>>
    /\ registry.promptMessageID > 0

(***************************************************************************)
(* Registry.Resolve, as its three callers see it.                          *)
(***************************************************************************)
\* the step is a Resolve of correlation id that returned ok and promptID
ResolveFrame(id, ok, promptID) ==
    /\ heap' = heap
    /\ IF ~Has(registry, id)
       THEN ~ok /\ registry' = registry
       ELSE /\ ok
            /\ registry'.executions =
                 [k \in DOMAIN registry.executions \ {id} |-> registry.executions[k]]
            /\ IF registry.promptCorrelation = id
               THEN /\ registry'.promptCorrelation = <<>>
                    /\ registry'.promptMessageID = 0
                    /\ promptID = registry.promptMessageID
               ELSE /\ registry'.promptCorrelation = registry.promptCorrelation
                    /\ registry'.promptMessageID = registry.promptMessageID
                    /\ promptID = 0

\* the correlation id of the option click being handled
OptionID ==
    parseOptionPayload(parseCallback(Updates[disp.update].data).payload).correlationID

\* C32: Resolve, called by a timer, by an option click or by a text answer: for an
\* id that is not in the registry it returns not-ok and changes nothing; for a
\* live execution that does not own the prompt it removes that execution only,
\* returns prompt id 0 and leaves the singleton (owner and prompt message id) and
\* every execution's awaiting_text as they were; for the owner it removes the
\* execution, empties the singleton and returns the recorded prompt message id.
C32_ResolveFrame ==
    [][/\ \A t \in 1..Len(timers) :
            TimerFire(t) =>
                ResolveFrame(timers[t].correlationID, timers'[t].pc = "finalize",
                             timers'[t].promptID)
       /\ OptionResolve =>
            ResolveFrame(OptionID, disp'.pc \in {"finalize", "panic"}, disp'.promptID)
       /\ MessageResolve =>
            ResolveFrame(heap[disp.exec].Request.CorrelationID,
                         disp'.pc \in {"finalize", "panic"}, disp'.promptID)]_vars

\* a timer resolved an execution that did not own the prompt while another
\* execution owned it: the owner still awaits text, its prompt still recorded
C32_Witness ==
    \E t \in 1..Len(timers) :
        /\ timers[t].pc = "finalize"
        /\ timers[t].promptID = 0
        /\ ~Live(timers[t].exec)
        /\ registry.promptCorrelation # <<>>
        /\ registry.promptCorrelation # CorrelationIDOf(timers[t].exec)
        /\ registry.promptMessageID > 0
        /\ \E e \in AwaitingLive : registry.promptCorrelation = CorrelationIDOf(e)

(***************************************************************************)
(* Messages that arrive while no execution owns the prompt.                *)
(***************************************************************************)
\* update u is a text or voice message from the chat served
AnswerMessage(u) ==
    /\ Updates[u].kind = "message"
    /\ allowedChat(Updates[u].chatID)
    /\ Updates[u].text # <<>> \/ Updates[u].voice

\* C33: a text or voice message from the configured chat that the dispatcher takes
\* while CurrentPrompt returns no execution (the singleton is empty) is discarded in
\* that one step: the registry and its executions stay as they were, nothing is
\* sent, edited or deleted in the chat, no callback is posted, nothing is replied,
\* and the dispatcher is idle again, so no resolution follows.
C33_MessageWithoutOwnerDiscarded ==
    [][disp.pc = "idle" /\ CurrentPrompt(registry, heap).exec = 0 =>
        \A u \in inputs.updates :
            AnswerMessage(u) /\ (\E delivered \in BOOLEAN : HandleUpdate(u, delivered)) =>
                /\ UNCHANGED <<registry, heap, chat, webhooks, timers, subs>>
                /\ disp' = IdleDisp
                /\ out' = Ignored]_vars

\* a message was just discarded in a run whose messages all are texts or voice
\* messages from the configured chat, with an execution in the registry, its
\* anchor message attached, and nobody owning the prompt
C33_Witness ==
    /\ out = Ignored
    /\ disp = IdleDisp
    /\ \A u \in inputs.updates : Updates[u].kind = "message" => AnswerMessage(u)
    /\ registry.promptCorrelation = <<>>
    /\ AwaitingLive = {}
    /\ \E e \in LiveExecs : heap[e].MessageID > 0 /\ webhooks[e] = <<>>

(***************************************************************************)
(* The buttons of an accepted request: the callback data optionsKeyboard   *)
(* and promptKeyboard attach to them, and what the dispatcher parses of it *)
(* when the button is clicked.                                             *)
(***************************************************************************)
\* the characters correlation ids are made of: a letter, a space and the two
\* separators of the callback data
IdAlphabet == {"a", " ", "|", ":"}

\* the correlation ids ExecuteHandler.ServeHTTP accepts: not blank
AcceptedIds ==
    {id \in UNION {[1..n -> IdAlphabet] : n \in 1..MaxIdLen} : TrimSpace(id) # <<>>}

\* the buttons: an option button by its index, the custom button, the cancel
\* button of the prompt
Buttons ==
    [action : {ActionOption}, index : 0..DefaultOptionsMax - 1]
    \cup [action : {ActionCustom, ActionCancelCustom}, index : {0}]

\* the callback data of button b of the request with correlation id
ButtonData(id, b) ==
    IF b.action = ActionOption
    THEN CallbackData(ActionOption, OptionPayload(id, b.index))
    ELSE CallbackData(b.action, id)

\* handleCallback: parseCallback and, for an option, parseOptionPayload
ParsedButton(data) ==
    LET cb == parseCallback(data)
        opt == parseOptionPayload(cb.payload)
    IN  IF cb.action = ActionOption
        THEN [action |-> cb.action, correlationID |-> opt.correlationID,
              index |-> opt.index, err |-> opt.err]
        ELSE [action |-> cb.action, correlationID |-> cb.payload, index |-> 0,
              err |-> FALSE]

KeyboardInit == InitWith([correlation_id : AcceptedIds])

\* button b of the request is clicked: the dispatcher parses its callback data
Click(b) ==
    /\ out.route = ""
    /\ out' = [NoOut EXCEPT !.route = "handleCallback",
                            !.response = ParsedButton(ButtonData(inputs.correlation_id, b))]
    /\ UNCHANGED <<main, source, inputs, cfg, registry, heap, chat, webhooks,
                   subs, timers, disp>>

KeyboardNext == \E b \in Buttons : Click(b)

KeyboardSpec == KeyboardInit /\ [][KeyboardNext]_vars

\* C34 as stated: for every accepted correlation id and every button, the callback
\* data of the button parses back to the button's action, that correlation id and,
\* for an option button, its index.
C34_AsClaimed ==
    [][\A b \in Buttons : Click(b) =>
        out'.response = [action |-> b.action, correlationID |-> inputs.correlation_id,
                         index |-> b.index, err |-> FALSE]]_vars

(***************************************************************************)
(* The whole service: main, the webhook source and its channel, the        *)
(* dispatcher working through the channel, the submissions and the timers. *)
(***************************************************************************)
\* the runs explored: one execution; clicks on an option and on the custom
\* button, and a text, delivered by the chat service in any order
DispatchScenarios == {
    [raws |-> {2}, updates |-> {3, 9, 24}, deliveries |-> {TRUE},
     submits |-> MaxSubmits - 1, prompts |-> MaxPrompts - 1] }

DispatchInit == InitWith(DispatchScenarios) /\ cfg.transcriber

\* the chat service posts update u to /webhook, with the secret it was given
Deliver(u) ==
    /\ main.listening
    /\ Len(source.updates) < MaxQueued
    /\ WebhookHandler([method |-> "POST", secret |-> source.secret, body |-> u])

\* a step of the dispatcher that continues the handling of the update it took
DispStep ==
    \/ OptionResolve
    \/ MessageResolve
    \/ \E deleted, edited \in inputs.deliveries : DispFinalize(deleted, edited)
    \/ CustomStart
    \/ \E deleted \in inputs.deliveries, delivered \in BOOLEAN :
            CustomSend(deleted, delivered)
    \/ CustomSet

\* a step of a /execute submission or of a timer
OtherStep ==
    \/ \E i \in inputs.raws : Execute(i)
    \/ \E s \in 1..Len(subs), delivered \in BOOLEAN : SubmitSend(s, delivered)
    \/ \E s \in 1..Len(subs) : SubmitAttach(s)
    \/ \E t \in 1..Len(timers) : TimerFire(t)
    \/ \E t \in 1..Len(timers), deleted, edited \in inputs.deliveries :
            TimerFinalize(t, deleted, edited)

DispatchNext ==
    \/ \E ok \in BOOLEAN : MainStart(ok)
    \/ MainSetReady
    \/ MainListen
    \/ \E failed \in BOOLEAN : MainWait(failed)
    \/ MainCancel
    \/ MainSetUnready
    \/ MainShutdown
    \/ \E ok \in BOOLEAN : MainStop(ok)
    \/ \E u \in inputs.updates : Deliver(u)
    \/ \E delivered \in inputs.deliveries : Run(delivered)
    \/ RunReturn
    \/ DispStep
    \/ OtherStep

DispatchSpec == DispatchInit /\ [][DispatchNext]_vars

\* this step takes an update from the channel
Dequeues == Len(source'.updates) < Len(source.updates)

\* C35: the dispatcher takes an update from the channel only when the handling of
\* the one before is over (all its chat calls and its callback POST made), and it
\* takes and handles the update at the head of the channel; while an update is
\* being handled the channel only grows, the dispatcher stays with that update
\* until it is idle again, and the registry and its executions are changed only
\* by a step of that handling, by a step of a /execute submission or by a timer.
C35_OneUpdateAtATime ==
    [][/\ Dequeues =>
            /\ disp.pc = "idle"
            /\ source'.updates = Tail(source.updates)
            /\ \E delivered \in BOOLEAN : HandleUpdateOf(Head(source.updates), delivered)
            /\ disp'.pc # "idle" => disp'.update = Head(source.updates)
       /\ disp.pc # "idle" =>
            /\ ~Dequeues
            /\ disp'.pc # "idle" => disp'.update = disp.update
            /\ registry' # registry \/ heap' # heap => DispStep \/ OtherStep]_vars

\* the custom click is being handled (StartCustomInput done, the prompt not yet
\* sent) while the next update waits in the channel and the timer of the execution
\* has fired: its Resolve went between two registry operations of the handling
C35_Witness ==
    /\ disp.pc = "custom_send"
    /\ Updates[disp.update].data = CallbackData(ActionCustom, IdB)
    /\ source.updates # <<>>
    /\ \E t \in 1..Len(timers) : timers[t].pc = "finalize" /\ timers[t].exec = disp.exec
    /\ ~Live(disp.exec)

(***************************************************************************)
(* The prompt messages shown in the chat.                                  *)
(***************************************************************************)
\* the custom-input prompt messages sent and not deleted
PromptsShown == {m \in 1..Len(chat) : chat[m].kind = "prompt" /\ chat[m].state # "deleted"}

\* nothing but clicks has happened and none is being handled: the dispatcher is
\* idle and no timer has fired
Quiet ==
    /\ disp.pc = "idle"
    /\ \A t \in 1..Len(timers) : timers[t].pc = "armed"

\* C36 as stated, read at the moments when no click is being handled, in runs in
\* which every deletion asked of the chat succeeds and no timeout has occurred: at
\* most one prompt message is shown, and none while the prompt singleton is empty.
C36_AsClaimed ==
    Quiet /\ inputs.deliveries = {TRUE} =>
        /\ Cardinality(PromptsShown) <= 1
        /\ registry.promptCorrelation = <<>> => PromptsShown = {}

(***************************************************************************)
(* The custom prompt whose send failed.                                    *)
(***************************************************************************)
\* the execution that owned the prompt before the custom click being handled, or 0
PreviousOwner ==
    IF /\ registry.promptCorrelation # <<>>
       /\ registry.promptCorrelation # CustomID
       /\ Has(registry, registry.promptCorrelation)
    THEN registry.executions[registry.promptCorrelation]
    ELSE 0

\* C37: StartCustomInput on a live execution E makes E the owner of the prompt
\* with AwaitingText set and prompt message id 0, takes AwaitingText from the
\* execution that owned the prompt before and hands over its prompt message id;
\* the failed send leaves the registry and the executions as they are, after the
\* deletion of that prompt message was asked of the chat (it is deleted when the
\* chat accepts the call), so E still owns the prompt, or no execution does when
\* the timeout of E removed it meanwhile; the next non-blank text of the configured
\* chat is then taken for E and, E still being in the registry, Resolve removes E
\* with no prompt message to delete and input_mode "text".
C37_FailedPromptKeepsOwner ==
    [][/\ disp.pc = "custom_start" /\ Has(registry, CustomID) /\ CustomStart =>
            /\ disp'.pc = "custom_send"
            /\ OwnsPromptIn(registry', heap', registry.executions[CustomID])
            /\ registry'.promptMessageID = 0
            /\ PreviousOwner # 0 =>
                    /\ ~heap'[PreviousOwner].AwaitingText
                    /\ LiveIn(registry', heap', PreviousOwner)
                    /\ disp'.promptID = registry.promptMessageID
       /\ \A deleted \in BOOLEAN :
            disp.pc = "custom_send" /\ CustomSend(deleted, FALSE) =>
                /\ UNCHANGED <<registry, heap>>
                /\ out'.calls = CallDelete(disp.promptID) \o CallSend
                /\ deleted /\ disp.promptID > 0 => ~Shown(chat', disp.promptID)
                /\ registry'.promptMessageID = 0
                /\ registry'.promptCorrelation \in {<<>>, CustomID}
                /\ registry'.promptCorrelation = CustomID =>
                        /\ Has(registry', CustomID)
                        /\ OwnsPromptIn(registry', heap', registry'.executions[CustomID])
                /\ \A e \in LiveExecs :
                        OwnsPromptIn(registry', heap', e) => CorrelationIDOf(e) = CustomID
       /\ \A e \in Execs, u \in inputs.updates :
            PromptFailed(e) /\ u \in Texts
                /\ (\E delivered \in BOOLEAN : HandleUpdate(u, delivered)) =>
                /\ disp'.pc = "message_resolve"
                /\ disp'.exec = e
                /\ disp'.answer = TrimSpace(Updates[u].text)
                /\ UNCHANGED <<registry, heap, chat>>
       /\ MessageResolve /\ disp.update \in Texts /\ Live(disp.exec)
            /\ registry.promptMessageID = 0 =>
            /\ ~LiveIn(registry', heap', disp.exec)
            /\ registry'.promptCorrelation = <<>>
            /\ disp'.pc = "finalize"
            /\ disp'.promptID = 0
            /\ disp'.result.Output =
                    OutputSelection(heap[disp.exec].Request.Question, disp.answer, <<>>,
                                    TRUE, "text")]_vars

\* the send of the prompt of one execution has just failed after the prompt of
\* another was deleted: the first owns the prompt without a prompt message, the
\* other is in the registry and awaits no text
C37_Witness ==
    \E e, p \in Execs, m \in 1..Len(chat) :
        /\ e # p
        /\ PromptFailed(e)
        /\ Live(p) /\ ~heap[p].AwaitingText
        /\ chat[m].kind = "prompt" /\ ~Shown(chat, m)
        /\ chat[m].replyTo = heap[p].MessageID
        /\ out.calls = CallDelete(m) \o CallSend
        /\ out.answers = <<Text(messageFor(heap[e].Request.Lang, cfg.Lang), "ErrorNote")>>

\* as claimed: whenever the send fails the clicked execution owns the prompt, with
\* the previous prompt message deleted
C37_AsClaimed ==
    [][\A deleted \in BOOLEAN :
            disp.pc = "custom_send" /\ CustomSend(deleted, FALSE) =>
                /\ OwnsPromptIn(registry', heap', disp.exec)
                /\ registry'.promptMessageID = 0
                /\ disp.promptID > 0 => ~Shown(chat', disp.promptID)]_vars

(***************************************************************************)
(* The fields of an Execution and the registry's mutex.                    *)
(***************************************************************************)
\* the next step of the dispatcher reads e.MessageID, the mutex not held:
\* startCustomPrompt builds ReplyParameters from exec.MessageID after
\* StartCustomInput has returned
ReadsMessageIDUnlocked(e) ==
    disp.pc = "custom_send" /\ disp.exec = e

\* the next step of the goroutine of submission s writes e.MessageID and
\* e.MessageText, in Registry.SetMessage
WritesMessageID(s, e) ==
    /\ subs[s].pc = "attach"
    /\ Has(registry, ReqOf(s).CorrelationID)
    /\ registry.executions[ReqOf(s).CorrelationID] = e

\* C38 as claimed: no Execution in the registry has its MessageID about to be read
\* by the dispatcher without the mutex while the goroutine of an /execute
\* request is about to write it
C38_AsClaimed ==
    \A e \in LiveExecs, s \in 1..Len(subs) :
        ~(ReadsMessageIDUnlocked(e) /\ WritesMessageID(s, e))

(***************************************************************************)
(* Accepted updates and the shutdown.                                      *)
(***************************************************************************)
\* no update will be received from the channel any more: Handler.Run has returned
\* on <-ctx.Done(), or main has returned
DispatcherGone ==
    \/ main.cancelled /\ ~main.running
    \/ main.pc = "exit"

\* C39 as claimed: every update answered 200 is handled, also when the shutdown
\* begins while updates are queued; so once the dispatcher is gone no update
\* answered 200 is left on the channel
C39_AsClaimed == DispatcherGone => source.updates = <<>>

=============================================================================
